---------------------------- MODULE Spec2Model ----------------------------
(***************************************************************************)
(* Model of the glossary gateway: the call-level retrier of the seeder     *)
(* (api-gateway/gateway/seeder.py), the orchestration handlers of the      *)
(* gateway (api-gateway/gateway/server.py) and the read/write handlers of  *)
(* the two backends they call (glossary-service, graph-service).           *)
(***************************************************************************)
EXTENDS Integers, Sequences, FiniteSets, Bags, TLC

(***************************************************************************)
(* gRPC status codes the backends use                                      *)
(***************************************************************************)
OK == "OK"
UNAVAILABLE == "UNAVAILABLE"
NOT_FOUND == "NOT_FOUND"
ALREADY_EXISTS == "ALREADY_EXISTS"
INVALID_ARGUMENT == "INVALID_ARGUMENT"
INTERNAL == "INTERNAL"

ErrorCodes == {UNAVAILABLE, NOT_FOUND, ALREADY_EXISTS, INVALID_ARGUMENT, INTERNAL}

\* the value a function holds before it has returned or raised anything
None == "None"

VARIABLES
    \* -- _call_with_retry --
    rt_pc,          \* "idle" | "loop" | "returned" | "raised"
    rt_max,         \* the max_retries argument of the running invocation
    rt_attempt,     \* the loop variable `attempt`
    rt_calls,       \* outcomes of the rpc_call invocations made so far, in order
    rt_result,      \* the value returned, or the code of the RpcError raised
    \* -- the two stores --
    terms,          \* term store: id -> [name, definition], the rows of `terms`
    rels,           \* relationship store: set of rows of `relationships`
    \* -- the gateway's request in flight --
    gw_pc,          \* "idle" | "details" | "lookup" | "done"
    gw_req,         \* [op, arg] of the request being served
    gw_term,        \* `term`: the central term GetTerm / GetTermByName fetched
    gw_rels,        \* relationships_res.relationships, in the order received
    gw_pending,     \* identifiers the loop of _get_term_lookup has still to visit
    gw_lookup,      \* term_lookup: the dict, as <<key, value>> pairs in insertion order
    gw_resp,        \* the response message and the status code set on the context
    gw_calls,       \* downstream calls issued for this request, counted per callee
    gw_failed,      \* identifiers whose GetTerm inside _get_term_lookup raised
    gw_writes,      \* writes of other clients since the request in flight began
    gw_down,        \* status code of the central fetch and of the relationship fetch
    \* -- run_seeder --
    sd_pc,          \* "idle" | "terms" | "lookup" | "rels" | "completed" | "aborted"
    sd_data,        \* SEED_DATA: the terms and the relationships to seed
    sd_run,         \* number of run_seeder invocations started
    sd_i,           \* position of the running for loop in its list
    sd_attempt,     \* `attempt` of the _call_with_retry in progress
    sd_term_map,    \* term_map: name -> identifier, of this run
    sd_last,        \* the last _call_with_retry finished (or relationship skipped)
    sd_created,     \* "CREATED" lines logged in this run, per kind
    sd_faulted,     \* a backend was unavailable or failed during this run
    sd_prev,        \* the stores as the previous run left them, when it completed cleanly
    sd_lost,        \* seed terms of this run with an AddTerm applied but answered UNAVAILABLE
    \* -- the sqlite tables of the two backends, row by row --
    tb_terms,       \* bag of the rows [id, name, definition] of the table `terms`
    tb_rels,        \* bag of the rows of the table `relationships`
    up_pc,          \* per worker: "idle" | "selected" (UpdateTerm between SELECT and UPDATE)
    up_req,         \* per worker: the UpdateTerm request it is handling
    sv_last,        \* the last call a backend handler answered: [op, req, code, n]
    \* -- the gateway process: serve(), wait_for_channel_ready, the seeder thread --
    mn_i,           \* position of serve() in ServeOrder; 0 once an exception ended it
    ch_pc,          \* wait_for_channel_ready: "idle" | "loop" | "waiting" | "returned" | "raised"
    ch_service,     \* its service_name argument
    ch_attempt,     \* its local `attempt`
    ch_timeouts,    \* FutureTimeoutErrors of the running invocation
    ch_open,        \* channels it has opened and not closed: [service, attempt]
    gs_channels,    \* GatewayServer.glossary_channel / graph_channel
    srv_started,    \* server.start() has returned
    srv_served,     \* requests the server has handled
    srv_unready,    \* a request was handled before both channels were established
    sdt_pc,         \* seeder thread: "none" | "sleeping" | "connecting" | "seeding" | "ended"
    sdt_runs,       \* calls of run_seeder made by this process
    sdt_seeded,     \* run_seeder got past the readiness wait
    gw_reachable,   \* the gateway's port answers the seeder's channel
    sdt_event,      \* how the body of run_seeder ended: "none" | "completed" | "aborted" | "timeout"
    srv_last,       \* what the last handler gave its caller: "none" | "ok" | "error" | "degraded"
    \* -- the caller of the request in flight --
    gw_cancelled    \* the caller of the request in flight timed out or disconnected

(***************************************************************************)
(* Part 1.  _call_with_retry                                               *)
(***************************************************************************)

\* default of the max_retries parameter; every caller uses the default
max_retries_default == 5

\* payloads a successful wrapped call may answer with
RetryValues == {"v1", "v2"}

\* what one invocation of rpc_call(request) can do: answer, or raise RpcError
RpcOutcomes ==
    [code : {OK}, val : RetryValues] \cup [code : ErrorCodes, val : {None}]


rt_vars == <<rt_pc, rt_max, rt_attempt, rt_calls, rt_result>>

sd_vars == <<sd_pc, sd_data, sd_run, sd_i, sd_attempt, sd_term_map, sd_last, sd_created,
             sd_faulted, sd_prev, sd_lost>>

tb_vars == <<tb_terms, tb_rels, up_pc, up_req, sv_last>>

st_vars == <<mn_i, ch_pc, ch_service, ch_attempt, ch_timeouts, ch_open, gs_channels,
             srv_started, srv_served, srv_unready, sdt_pc, sdt_runs, sdt_seeded,
             gw_reachable, sdt_event, srv_last>>

\* what the gateway's handlers, the retrier and run_seeder leave alone
aux_vars == <<tb_vars, st_vars, gw_cancelled>>

\* mutant: every RpcError is treated as retriable
RetryDecisionRetryAll(attempt, max_retries, code) ==
    IF code = OK THEN "return"
    ELSE IF attempt + 1 = max_retries THEN "raise" ELSE "sleep"

\* mutant: the last-attempt test is off by one, so the loop gives up one attempt early
RetryDecisionEarly(attempt, max_retries, code) ==
    IF code = OK THEN "return"
    ELSE IF code = UNAVAILABLE
         THEN IF attempt + 2 >= max_retries THEN "raise" ELSE "sleep"
         ELSE "raise"

\* mutant: the last-attempt test never fires, so the for loop runs out
RetryDecisionNoRaise(attempt, max_retries, code) ==
    IF code = OK THEN "return"
    ELSE IF code = UNAVAILABLE THEN "sleep" ELSE "raise"

\* body of the for loop once rpc_call has answered with `code`
RetryDecision(attempt, max_retries, code) ==
    IF code = OK THEN "return"
    ELSE IF code = UNAVAILABLE
         THEN IF attempt + 1 = max_retries THEN "raise" ELSE "sleep"
         ELSE "raise"

RetryInit ==
    /\ rt_pc = "idle"
    /\ rt_max = max_retries_default
    /\ rt_attempt = 0
    /\ rt_calls = <<>>
    /\ rt_result = None

\* _call_with_retry(rpc_call, request, max_retries) is entered
CallWithRetry ==
    /\ rt_pc # "loop"
    /\ \E m \in 1..max_retries_default : rt_max' = m
    /\ rt_pc' = "loop"
    /\ rt_attempt' = 0
    /\ rt_calls' = <<>>
    /\ rt_result' = None
    /\ UNCHANGED <<terms, rels, gw_pc, gw_req, gw_term, gw_rels, gw_pending, gw_lookup,
                   gw_resp, gw_calls, gw_failed, gw_writes, gw_down, sd_vars, aux_vars>>

\* one iteration of `for attempt in range(max_retries)`
RetryAttempt ==
    /\ rt_pc = "loop"
    /\ \E o \in RpcOutcomes :
         LET d == RetryDecision(rt_attempt, rt_max, o.code) IN
         /\ rt_calls' = Append(rt_calls, o)
         /\ CASE d = "return" ->
                   /\ rt_pc' = "returned"
                   /\ rt_result' = o.val
                   /\ rt_attempt' = rt_attempt
              [] d = "raise" ->
                   /\ rt_pc' = "raised"
                   /\ rt_result' = o.code
                   /\ rt_attempt' = rt_attempt
              [] OTHER ->
                   \* time.sleep(delay_seconds), then the next value of range()
                   IF rt_attempt + 1 < rt_max
                   THEN /\ rt_pc' = "loop"
                        /\ rt_attempt' = rt_attempt + 1
                        /\ rt_result' = rt_result
                   ELSE \* range() is exhausted: the function falls off its end
                        /\ rt_pc' = "returned"
                        /\ rt_attempt' = rt_attempt
                        /\ rt_result' = None
    /\ rt_max' = rt_max
    /\ UNCHANGED <<terms, rels, gw_pc, gw_req, gw_term, gw_rels, gw_pending, gw_lookup,
                   gw_resp, gw_calls, gw_failed, gw_writes, gw_down, sd_vars, aux_vars>>

RetryNext == CallWithRetry \/ RetryAttempt



(***************************************************************************)
(* Part 2.  The two stores and the backend handlers the gateway calls      *)
(***************************************************************************)

\* identifiers the term store can hand out (uuid4 values), names, definitions
TermIds == {"id1", "id2", "id3"}
Names == {"A", "B"}
Definitions == {"d"}
\* relationship kinds clients send (RELATED_TO)
RelTypes == {1}

\* most rows the relationships table holds in the model
MaxRels == 2

\* what a caller may put in an id / name field: a value or the empty string
ReqIds == TermIds \cup {""}
ReqNames == Names \cup {""}

\* faults of one downstream call: none, the callee unreachable, a sqlite3.Error
Faults == {None, UNAVAILABLE, INTERNAL}


store_vars == <<terms, rels>>

\* glossary_pb2.Term() with no field set
EmptyTerm == [id |-> "", name |-> "", definition |-> ""]

\* glossary_pb2.Term(**term_row) of the row with key id
TermOf(id) == [id |-> id, name |-> terms[id].name, definition |-> terms[id].definition]

\* glossary_stub.GetTerm(GetTermRequest(id)): the reply, or the RpcError's code
GlossaryGetTerm(id, fault) ==
    IF fault = UNAVAILABLE THEN [code |-> UNAVAILABLE, term |-> EmptyTerm]
    ELSE IF id = "" THEN [code |-> INVALID_ARGUMENT, term |-> EmptyTerm]
    ELSE IF fault = INTERNAL THEN [code |-> INTERNAL, term |-> EmptyTerm]
    ELSE IF id \notin DOMAIN terms THEN [code |-> NOT_FOUND, term |-> EmptyTerm]
    ELSE [code |-> OK, term |-> TermOf(id)]

\* glossary_stub.GetTermByName(GetTermByNameRequest(name))
GlossaryGetTermByName(name, fault) ==
    IF fault = UNAVAILABLE THEN [code |-> UNAVAILABLE, term |-> EmptyTerm]
    ELSE IF name = "" THEN [code |-> INVALID_ARGUMENT, term |-> EmptyTerm]
    ELSE IF fault = INTERNAL THEN [code |-> INTERNAL, term |-> EmptyTerm]
    ELSE IF \A i \in DOMAIN terms : terms[i].name # name
         THEN [code |-> NOT_FOUND, term |-> EmptyTerm]
    ELSE [code |-> OK, term |-> TermOf(CHOOSE i \in DOMAIN terms : terms[i].name = name)]

\* mutant: the query matches from_term_id only
GraphGetRelationshipsForTermFromOnly(term_id, fault) ==
    IF fault = UNAVAILABLE THEN [code |-> UNAVAILABLE, relationships |-> {}]
    ELSE IF term_id = "" THEN [code |-> INVALID_ARGUMENT, relationships |-> {}]
    ELSE IF fault = INTERNAL THEN [code |-> INTERNAL, relationships |-> {}]
    ELSE [code |-> OK,
          relationships |-> {r \in rels : r.from_term_id = term_id}]

\* graph_stub.GetRelationshipsForTerm(term_id): the matching rows (unordered)
GraphGetRelationshipsForTerm(term_id, fault) ==
    IF fault = UNAVAILABLE THEN [code |-> UNAVAILABLE, relationships |-> {}]
    ELSE IF term_id = "" THEN [code |-> INVALID_ARGUMENT, relationships |-> {}]
    ELSE IF fault = INTERNAL THEN [code |-> INTERNAL, relationships |-> {}]
    ELSE [code |-> OK,
          relationships |->
              {r \in rels : r.from_term_id = term_id \/ r.to_term_id = term_id}]

\* the orders in which fetchall() may hand back a set of rows
RowOrders(S) ==
    {s \in [1..Cardinality(S) -> S] : \A i, j \in 1..Cardinality(S) : i # j => s[i] # s[j]}

\* INITIAL_TERMS, shortened to its first term
INITIAL_TERMS == <<[name |-> "A", definition |-> "d"]>>

\* the identifiers uuid4 gives to INITIAL_TERMS: identifiers are interchangeable,
\* so one arbitrary choice of distinct identifiers stands for all
InitialIds ==
    CHOOSE ids \in [DOMAIN INITIAL_TERMS -> TermIds] :
        \A i, j \in DOMAIN ids : i # j => ids[i] # ids[j]

\* init_db of both services on fresh database files: the terms table is empty, so
\* it is seeded with INITIAL_TERMS under uuid4 identifiers; no relationship yet
StoreInit ==
    /\ terms = [id \in {InitialIds[i] : i \in DOMAIN INITIAL_TERMS} |->
                   INITIAL_TERMS[CHOOSE i \in DOMAIN INITIAL_TERMS : InitialIds[i] = id]]
    /\ rels = {}

\* GlossaryServicer.AddTerm when the INSERT succeeds (uuid4 gives an unused id)
GlossaryAddTerm ==
    \E name \in Names, definition \in Definitions, term_id \in TermIds \ DOMAIN terms :
        \* IntegrityError on the UNIQUE name leaves the table as it is
        /\ \A i \in DOMAIN terms : terms[i].name # name
        /\ terms' = [i \in DOMAIN terms \cup {term_id} |->
                        IF i = term_id THEN [name |-> name, definition |-> definition]
                        ELSE terms[i]]
        /\ UNCHANGED rels

\* mutant: deleting a term also deletes the relationships that name it
GlossaryDeleteTermCascade ==
    \E term_id \in DOMAIN terms :
        /\ terms' = [i \in DOMAIN terms \ {term_id} |-> terms[i]]
        /\ rels' = {r \in rels : r.from_term_id # term_id /\ r.to_term_id # term_id}

\* GlossaryServicer.DeleteTerm when a row is deleted
GlossaryDeleteTerm ==
    \E term_id \in DOMAIN terms :
        /\ terms' = [i \in DOMAIN terms \ {term_id} |-> terms[i]]
        /\ UNCHANGED rels

\* mutant: only empty endpoints are refused
RelationshipRequestInvalidEmptyOnly(f, t) == f = "" \/ t = ""

\* the input validation of GraphServicer.AddRelationship (lines 48-57): an empty
\* endpoint, or a term related to itself
RelationshipRequestInvalid(f, t) == (f = "" \/ t = "") \/ f = t

\* GraphServicer.AddRelationship when the INSERT succeeds
GraphAddRelationship ==
    \E f \in TermIds, t \in TermIds, ty \in RelTypes :
        LET row == [from_term_id |-> f, to_term_id |-> t, type |-> ty] IN
        /\ ~RelationshipRequestInvalid(f, t)
        /\ row \notin rels
        /\ Cardinality(rels) < MaxRels
        /\ rels' = rels \cup {row}
        /\ UNCHANGED terms

\* GraphServicer.DeleteRelationship when a row is deleted
GraphDeleteRelationship ==
    \E row \in rels :
        /\ rels' = rels \ {row}
        /\ UNCHANGED terms


(***************************************************************************)
(* Part 3.  The gateway's orchestration handlers: one request in flight,   *)
(* other clients' writes interleaving with its downstream calls            *)
(***************************************************************************)


gw_vars == <<gw_pc, gw_req, gw_term, gw_rels, gw_pending, gw_lookup, gw_resp,
             gw_calls, gw_failed, gw_writes, gw_down>>

\* most writes of other clients that interleave with one request in the model
MaxConcurrentWrites == 1


\* ---- dict helpers (term_lookup) ----
DictKeys(d) == {d[i][1] : i \in DOMAIN d}
DictHas(d, k) == k \in DictKeys(d)
DictGet(d, k) == d[CHOOSE i \in DOMAIN d : d[i][1] = k][2]
DictPut(d, k, v) ==
    IF DictHas(d, k)
    THEN [i \in DOMAIN d |-> IF d[i][1] = k THEN <<k, v>> ELSE d[i]]
    ELSE Append(d, <<k, v>>)

\* ---- response messages ----
NoResp == [code |-> None, term |-> EmptyTerm, relationships |-> <<>>,
           nodes |-> <<>>, edges |-> <<>>]
\* gateway_pb2.TermDetails(term=..., relationships=...) with the context's code
TermDetails(code, term, relationships) ==
    [code |-> code, term |-> term, relationships |-> relationships,
     nodes |-> <<>>, edges |-> <<>>]
\* gateway_pb2.GetMindMapForTermResponse(nodes=..., edges=...)
MindMapResponse(code, nodes, edges) ==
    [code |-> code, term |-> EmptyTerm, relationships |-> <<>>,
     nodes |-> nodes, edges |-> edges]

\* no downstream call has answered yet
NoDown == [central |-> None, rels |-> None, proxy |-> None]

NoCalls == [get_term |-> [i \in ReqIds |-> 0],
            get_term_by_name |-> 0,
            get_relationships |-> 0,
            lookup |-> [i \in TermIds |-> 0]]

\* both endpoints of every relationship of a sequence
Endpoints(rs) ==
    {rs[i].from_term_id : i \in DOMAIN rs} \cup {rs[i].to_term_id : i \in DOMAIN rs}

\* the subsequence of s whose elements satisfy Keep, order kept
RECURSIVE SelectIdx(_, _, _)
SelectIdx(s, keep, i) ==
    IF i > Len(s) THEN <<>>
    ELSE IF i \in keep THEN <<s[i]>> \o SelectIdx(s, keep, i + 1)
    ELSE SelectIdx(s, keep, i + 1)

\* lines 147-148: the central term is put in the dict when its lookup failed
WithCentralTerm(lookup, term) ==
    IF ~DictHas(lookup, term.id) THEN DictPut(lookup, term.id, term) ELSE lookup

\* mutant: the two names of a record are taken from the wrong endpoints
EnrichedRelationshipsSwapped(rs, lookup) ==
    LET keep == {i \in DOMAIN rs :
                    DictHas(lookup, rs[i].from_term_id) /\ DictHas(lookup, rs[i].to_term_id)}
        kept == SelectIdx(rs, keep, 1)
    IN [i \in DOMAIN kept |->
           [from_term_id |-> kept[i].from_term_id,
            to_term_id |-> kept[i].to_term_id,
            type |-> kept[i].type,
            from_term_name |-> DictGet(lookup, kept[i].to_term_id).name,
            to_term_name |-> DictGet(lookup, kept[i].from_term_id).name]]

\* mutant: a relationship is kept when either endpoint resolved
EnrichedRelationshipsEither(rs, lookup) ==
    LET keep == {i \in DOMAIN rs :
                    DictHas(lookup, rs[i].from_term_id) \/ DictHas(lookup, rs[i].to_term_id)}
        kept == SelectIdx(rs, keep, 1)
    IN [i \in DOMAIN kept |->
           [from_term_id |-> kept[i].from_term_id,
            to_term_id |-> kept[i].to_term_id,
            type |-> kept[i].type,
            from_term_name |-> IF DictHas(lookup, kept[i].from_term_id)
                               THEN DictGet(lookup, kept[i].from_term_id).name ELSE "",
            to_term_name |-> IF DictHas(lookup, kept[i].to_term_id)
                             THEN DictGet(lookup, kept[i].to_term_id).name ELSE ""]]

\* lines 150-164: one RelationshipDetails per relationship with both endpoints in the dict
EnrichedRelationships(rs, lookup) ==
    LET keep == {i \in DOMAIN rs :
                    DictHas(lookup, rs[i].from_term_id) /\ DictHas(lookup, rs[i].to_term_id)}
        kept == SelectIdx(rs, keep, 1)
    IN [i \in DOMAIN kept |->
           [from_term_id |-> kept[i].from_term_id,
            to_term_id |-> kept[i].to_term_id,
            type |-> kept[i].type,
            from_term_name |-> DictGet(lookup, kept[i].from_term_id).name,
            to_term_name |-> DictGet(lookup, kept[i].to_term_id).name]]

GwInit ==
    /\ gw_pc = "idle"
    /\ gw_req = [op |-> None, arg |-> ""]
    /\ gw_term = EmptyTerm
    /\ gw_rels = <<>>
    /\ gw_pending = {}
    /\ gw_lookup = <<>>
    /\ gw_resp = NoResp
    /\ gw_calls = NoCalls
    /\ gw_failed = {}
    /\ gw_writes = 0
    /\ gw_down = NoDown

\* mutant: the handler forgets context.set_code, so the failure reads as a success
HandleRpcErrorOk(code) == OK

\* mutant: every downstream failure is reported as INTERNAL
HandleRpcErrorInternal(code) == INTERNAL

\* mutant: every downstream failure is reported as UNAVAILABLE
HandleRpcErrorUnavailable(code) == UNAVAILABLE

\* handle_rpc_error: context.set_code(e.code())
HandleRpcError(code) == code

\* mutant: a failed relationship fetch is propagated like a failed central fetch
RelationshipFetchFailedPropagate(term, code) == TermDetails(code, EmptyTerm, <<>>)

\* lines 168-173: except grpc.RpcError in _get_term_details
RelationshipFetchFailed(term, code) == TermDetails(OK, term, <<>>)

\* what GetTerm / GetTermByName do with the reply r of the central fetch
CentralFetched(r) ==
    /\ gw_rels' = <<>>
    /\ gw_pending' = {}
    /\ gw_lookup' = <<>>
    /\ gw_failed' = {}
    /\ gw_writes' = 0
    /\ gw_down' = [central |-> r.code, rels |-> None, proxy |-> None]
    /\ IF r.code = OK
       THEN /\ gw_term' = r.term
            /\ gw_pc' = "details"
            /\ gw_resp' = NoResp
       ELSE \* handle_rpc_error(e, context); return gateway_pb2.TermDetails()
            /\ gw_term' = EmptyTerm
            /\ gw_pc' = "done"
            /\ gw_resp' = TermDetails(HandleRpcError(r.code), EmptyTerm, <<>>)

\* GatewayServer.GetTerm up to the return of glossary_stub.GetTerm(request)
GetTerm ==
    /\ gw_pc = "idle"
    /\ \E id \in ReqIds, fault \in Faults :
         /\ gw_req' = [op |-> "GetTerm", arg |-> id]
         /\ gw_calls' = [NoCalls EXCEPT !.get_term[id] = 1]
         /\ CentralFetched(GlossaryGetTerm(id, fault))
    /\ UNCHANGED <<store_vars, rt_vars, sd_vars, aux_vars>>

\* GatewayServer.GetTermByName up to the return of glossary_stub.GetTermByName(request)
GetTermByName ==
    /\ gw_pc = "idle"
    /\ \E name \in ReqNames, fault \in Faults :
         /\ gw_req' = [op |-> "GetTermByName", arg |-> name]
         /\ gw_calls' = [NoCalls EXCEPT !.get_term_by_name = 1]
         /\ CentralFetched(GlossaryGetTermByName(name, fault))
    /\ UNCHANGED <<store_vars, rt_vars, sd_vars, aux_vars>>


\* GatewayServer._get_term_details up to the call of _get_term_lookup
\* (lines 134-146): the relationship fetch, the early returns, related_ids
GetTermDetails ==
    /\ gw_pc = "details"
    /\ gw_calls' = [gw_calls EXCEPT !.get_relationships = @ + 1]
    /\ \E fault \in Faults :
         LET r == GraphGetRelationshipsForTerm(gw_term.id, fault) IN
         /\ gw_down' = [gw_down EXCEPT !.rels = r.code]
         /\ IF r.code # OK
            THEN /\ gw_resp' = RelationshipFetchFailed(gw_term, r.code)
                 /\ gw_pc' = "done"
                 /\ UNCHANGED <<gw_rels, gw_pending>>
            ELSE IF r.relationships = {}
            THEN \* `if not relationships_res.relationships`
                 /\ gw_resp' = TermDetails(OK, gw_term, <<>>)
                 /\ gw_pc' = "done"
                 /\ UNCHANGED <<gw_rels, gw_pending>>
            ELSE \E rows \in RowOrders(r.relationships) :
                /\ gw_rels' = rows
                /\ gw_pending' = Endpoints(rows)
                /\ gw_pc' = "lookup"
                /\ gw_resp' = gw_resp
    /\ UNCHANGED <<gw_req, gw_term, gw_lookup, gw_failed, gw_writes, store_vars, rt_vars, sd_vars, aux_vars>>

\* mutant: a failed GetTerm ends the loop of _get_term_lookup
LookupRemainingAbort(pending, id, r) ==
    IF r.code # OK THEN {} ELSE pending \ {id}

\* mutant: the identifiers are walked per endpoint occurrence, not per distinct id
LookupRemainingRepeat(pending, id, r) ==
    IF gw_calls.lookup[id] = 0 /\ Len(gw_rels) > 1 THEN pending ELSE pending \ {id}

\* `for term_id in term_ids` (line 108): what is left after visiting id
LookupRemaining(pending, id, r) == pending \ {id}

\* mutant: term_lookup is created anew inside the loop, so only the last entry stays
LookupEntryReset(lookup, id, r) ==
    IF r.code = OK THEN <<<<id, r.term>>>> ELSE <<>>

\* mutant: a failed lookup stores the empty Term under the identifier
LookupEntryAlways(lookup, id, r) == DictPut(lookup, id, r.term)

\* lines 109-117: the try/except around one GetTerm of _get_term_lookup
LookupEntry(lookup, id, r) ==
    IF r.code = OK THEN DictPut(lookup, id, r.term) ELSE lookup

\* spec-modelled: graph_pb2.RelationshipType, the enum of the relationship kinds
RelationshipType ==
    [UNKNOWN |-> 0, RELATED_TO |-> 1, DEPENDS_ON |-> 2, IS_A |-> 3]

\* mutant: the label table is looked up by name instead of by value, so nothing is found
EdgeLabelUnknown(type) == "UNKNOWN"

\* lines 236-238 and 243: relationship_type_map.get(r.type, "UNKNOWN")
EdgeLabel(type) ==
    IF \E k \in DOMAIN RelationshipType : RelationshipType[k] = type
    THEN CHOOSE k \in DOMAIN RelationshipType : RelationshipType[k] = type
    ELSE "UNKNOWN"

\* lines 224-227: all_term_ids
AllTermIds(term_id, rs) == {term_id} \cup Endpoints(rs)

\* lines 231-234: one Node per value of term_lookup
Nodes(lookup) ==
    [i \in DOMAIN lookup |->
        [id |-> lookup[i][2].id, name |-> lookup[i][2].name,
         definition |-> lookup[i][2].definition]]

\* mutant: a relationship with an endpoint whose lookup failed gives no edge
EdgesDropFailed(rs) ==
    LET kept == SelectIdx(rs, {i \in DOMAIN rs :
                                  /\ rs[i].from_term_id \notin gw_failed
                                  /\ rs[i].to_term_id \notin gw_failed}, 1)
    IN [i \in DOMAIN kept |->
           [from_id |-> kept[i].from_term_id, to_id |-> kept[i].to_term_id,
            label |-> "RELATED_TO"]]

\* lines 239-246: one Edge per relationship received
Edges(rs) ==
    [i \in DOMAIN rs |->
        [from_id |-> rs[i].from_term_id, to_id |-> rs[i].to_term_id,
         label |-> EdgeLabel(rs[i].type)]]

\* one iteration of the loop of GatewayServer._get_term_lookup; the iteration
\* that empties the set runs on into the caller's assembly of the response
TermLookup ==
    /\ gw_pc = "lookup"
    /\ \E id \in gw_pending, fault \in Faults :
         LET r == GlossaryGetTerm(id, fault)
             lookup == LookupEntry(gw_lookup, id, r)
             left == LookupRemaining(gw_pending, id, r)
         IN
         /\ gw_calls' = [gw_calls EXCEPT !.get_term[id] = @ + 1, !.lookup[id] = @ + 1]
         /\ gw_failed' = IF r.code # OK THEN gw_failed \cup {id} ELSE gw_failed
         /\ gw_pending' = left
         /\ IF left # {}
            THEN /\ gw_lookup' = lookup
                 /\ gw_pc' = "lookup"
                 /\ gw_resp' = gw_resp
            ELSE /\ gw_pc' = "done"
                 /\ IF gw_req.op = "GetMindMapForTerm"
                    THEN /\ gw_lookup' = lookup
                         /\ gw_resp' = MindMapResponse(OK, Nodes(lookup), Edges(gw_rels))
                    ELSE LET full == WithCentralTerm(lookup, gw_term) IN
                         /\ gw_lookup' = full
                         /\ gw_resp' = TermDetails(OK, gw_term,
                                                   EnrichedRelationships(gw_rels, full))
    /\ UNCHANGED <<gw_req, gw_term, gw_rels, gw_writes, gw_down, store_vars, rt_vars, sd_vars, aux_vars>>

\* GatewayServer.GetMindMapForTerm up to the call of _get_term_lookup
GetMindMapForTerm ==
    /\ gw_pc = "idle"
    /\ \E term_id \in ReqIds, fault \in Faults :
         LET r == GraphGetRelationshipsForTerm(term_id, fault) IN
         /\ gw_req' = [op |-> "GetMindMapForTerm", arg |-> term_id]
         /\ gw_calls' = [NoCalls EXCEPT !.get_relationships = 1]
         /\ gw_term' = EmptyTerm
         /\ gw_lookup' = <<>>
         /\ gw_failed' = {}
         /\ gw_writes' = 0
         /\ gw_down' = [central |-> None, rels |-> r.code, proxy |-> None]
         /\ IF r.code # OK
            THEN \* handle_rpc_error(e, context); return GetMindMapForTermResponse()
                 /\ gw_resp' = MindMapResponse(HandleRpcError(r.code), <<>>, <<>>)
                 /\ gw_pc' = "done"
                 /\ gw_rels' = <<>>
                 /\ gw_pending' = {}
            ELSE \E rows \in RowOrders(r.relationships) :
                   /\ gw_rels' = rows
                   /\ gw_pending' = AllTermIds(term_id, rows)
                   /\ gw_pc' = "lookup"
                   /\ gw_resp' = NoResp
    /\ UNCHANGED <<store_vars, rt_vars, sd_vars, aux_vars>>

\* the handler has returned: the worker takes the next request
Respond ==
    /\ gw_pc = "done"
    /\ gw_pc' = "idle"
    /\ gw_req' = [op |-> None, arg |-> ""]
    /\ gw_term' = EmptyTerm
    /\ gw_rels' = <<>>
    /\ gw_pending' = {}
    /\ gw_lookup' = <<>>
    /\ gw_resp' = NoResp
    /\ gw_calls' = NoCalls
    /\ gw_failed' = {}
    /\ gw_writes' = 0
    /\ gw_down' = NoDown
    /\ gw_cancelled' = FALSE
    /\ UNCHANGED <<store_vars, rt_vars, sd_vars, tb_vars, st_vars>>

\* a write proxied for another client lands while the request is idle or between
\* two of its downstream calls
WriteInterleaves ==
    /\ \/ gw_pc = "idle" /\ gw_writes' = gw_writes
       \/ gw_pc \in {"details", "lookup"} /\ gw_writes < MaxConcurrentWrites
          /\ gw_writes' = gw_writes + 1
    /\ UNCHANGED <<gw_pc, gw_req, gw_term, gw_rels, gw_pending, gw_lookup, gw_resp,
                   gw_calls, gw_failed, gw_down, rt_vars, sd_vars, aux_vars>>

\* GatewayServer.AddTerm: the proxy of GlossaryServicer.AddTerm
AddTerm == GlossaryAddTerm /\ WriteInterleaves

\* GatewayServer.DeleteTerm: the proxy of GlossaryServicer.DeleteTerm
DeleteTerm == GlossaryDeleteTerm /\ WriteInterleaves

\* GatewayServer.AddRelationship: the proxy of GraphServicer.AddRelationship
AddRelationship == GraphAddRelationship /\ WriteInterleaves

\* GatewayServer.DeleteRelationship: the proxy of GraphServicer.DeleteRelationship
DeleteRelationship == GraphDeleteRelationship /\ WriteInterleaves


(***************************************************************************)
(* Part 4.  run_seeder: the seeder, alone on the gateway after the writes   *)
(* other clients made before it started                                     *)
(***************************************************************************)

\* bound on the number of run_seeder invocations
MaxSeederRuns == 2

\* SEED_DATA, shortened to two terms and two relationships: as in the source,
\* every relationship names seeded terms and a pair is related in both directions
SEED_DATA ==
    [terms |-> <<[name |-> "A", definition |-> "d"], [name |-> "B", definition |-> "d"]>>,
     relationships |-> << <<"A", "B", "RELATED_TO">>, <<"B", "A", "DEPENDS_ON">> >>]

\* the seed data run_seeder is checked on: SEED_DATA, and a list whose first
\* relationship names a term that is not seeded
SeedDataSets ==
    {SEED_DATA,
     [terms |-> SEED_DATA.terms,
      relationships |-> << <<"A", "C", "RELATED_TO">>, <<"A", "B", "RELATED_TO">> >>]}

\* get_relationship_type_enum: getattr(graph_pb2, type_str, graph_pb2.UNKNOWN)
get_relationship_type_enum(type_str) ==
    IF type_str \in DOMAIN RelationshipType
    THEN RelationshipType[type_str]
    ELSE RelationshipType.UNKNOWN

\* mutant: the terms table has no UNIQUE constraint on name
GlossaryAddTermCodeNoUnique(name, definition, fault) ==
    IF fault = UNAVAILABLE THEN UNAVAILABLE
    ELSE IF name = "" \/ definition = "" THEN INVALID_ARGUMENT
    ELSE IF fault = INTERNAL THEN INTERNAL
    ELSE OK

\* status code of GlossaryServicer.AddTerm, reached through the gateway's proxy
GlossaryAddTermCode(name, definition, fault) ==
    IF fault = UNAVAILABLE THEN UNAVAILABLE
    ELSE IF name = "" \/ definition = "" THEN INVALID_ARGUMENT
    ELSE IF fault = INTERNAL THEN INTERNAL
    ELSE IF \E i \in DOMAIN terms : terms[i].name = name THEN ALREADY_EXISTS
    ELSE OK

\* mutant: the table has no key, so a duplicate row raises no IntegrityError
GraphAddRelationshipCodeNoKey(f, t, ty, fault) ==
    IF fault = UNAVAILABLE THEN UNAVAILABLE
    ELSE IF RelationshipRequestInvalid(f, t) THEN INVALID_ARGUMENT
    ELSE IF fault = INTERNAL THEN INTERNAL
    ELSE OK

\* status code of GraphServicer.AddRelationship, reached through the gateway's proxy
GraphAddRelationshipCode(f, t, ty, fault) ==
    IF fault = UNAVAILABLE THEN UNAVAILABLE
    ELSE IF RelationshipRequestInvalid(f, t) THEN INVALID_ARGUMENT
    ELSE IF fault = INTERNAL THEN INTERNAL
    ELSE IF [from_term_id |-> f, to_term_id |-> t, type |-> ty] \in rels THEN ALREADY_EXISTS
    ELSE OK

\* term_map.get(name)
TermMapGet(m, name) == IF name \in DOMAIN m THEN m[name] ELSE None

\* mutant: the identifier is not recorded
TermMapPutLost(m, name, id) == m

\* term_map[name] = id
TermMapPut(m, name, id) ==
    [n \in DOMAIN m \cup {name} |-> IF n = name THEN id ELSE m[n]]

\* a None keyword argument leaves a string field of the request at its default
RequestField(id) == IF id = None THEN "" ELSE id

\* mutant: any RpcError of the term phase is answered by the lookup by name
TermPhaseDecisionLookupAll(op, code) ==
    IF code = OK THEN "record"
    ELSE IF op = "AddTerm" THEN "lookup"
    ELSE "abort"

\* mutant: ALREADY_EXISTS is re-raised like every other RpcError
TermPhaseDecisionAbortAll(op, code) ==
    IF code = OK THEN "record" ELSE "abort"

\* lines 123-138: what the term loop does with the outcome of a _call_with_retry
TermPhaseDecision(op, code) ==
    IF code = OK THEN "record"
    ELSE IF op = "AddTerm" /\ code = ALREADY_EXISTS THEN "lookup"
    ELSE "abort"

\* mutant: every RpcError of AddRelationship is logged and the loop goes on
RelationshipPhaseDecisionContinue(code) == "next"

\* mutant: ALREADY_EXISTS of AddRelationship is re-raised
RelationshipPhaseDecisionAbortAll(code) ==
    IF code = OK THEN "next" ELSE "abort"

\* lines 148-162: what the relationship loop does with the outcome of AddRelationship
RelationshipPhaseDecision(code) ==
    IF code \in {OK, ALREADY_EXISTS} THEN "next" ELSE "abort"

\* mutant: only the from-name is tested
SkipsRelationshipFromOnly(from_id, to_id) == from_id \in {None, ""}

\* line 145: `if not all([from_id, to_id])`
SkipsRelationship(from_id, to_id) == from_id \in {None, ""} \/ to_id \in {None, ""}

NoLast == [op |-> None, i |-> 0, code |-> None]
NoCreated == [terms |-> 0, relationships |-> 0]
NoPrev == [ok |-> FALSE, terms |-> <<>>, rels |-> {}, created |-> NoCreated]

SeederInit(data) ==
    /\ sd_pc = "idle"
    /\ sd_data = data
    /\ sd_run = 0
    /\ sd_i = 1
    /\ sd_attempt = 0
    /\ sd_term_map = <<>>
    /\ sd_last = NoLast
    /\ sd_created = NoCreated
    /\ sd_faulted = FALSE
    /\ sd_prev = NoPrev
    /\ sd_lost = {}

\* where the term loop goes after the term at sd_i
AfterTermPc ==
    IF sd_i < Len(sd_data.terms) THEN "terms"
    ELSE IF Len(sd_data.relationships) > 0 THEN "rels" ELSE "completed"
AfterTermIdx == IF sd_i < Len(sd_data.terms) THEN sd_i + 1 ELSE 1

\* where the relationship loop goes after the relationship at sd_i
AfterRelationshipPc == IF sd_i < Len(sd_data.relationships) THEN "rels" ELSE "completed"
AfterRelationshipIdx == IF sd_i < Len(sd_data.relationships) THEN sd_i + 1 ELSE sd_i

\* run_seeder is called: the channel to the gateway becomes ready within the
\* timeout, or the future raises and the outer except ends the run
RunSeeder ==
    /\ sd_pc \in {"idle", "completed", "aborted"}
    /\ sd_run < MaxSeederRuns
    /\ sd_run' = sd_run + 1
    /\ sd_prev' = IF sd_pc = "completed" /\ ~sd_faulted
                  THEN [ok |-> TRUE, terms |-> terms, rels |-> rels, created |-> sd_created]
                  ELSE NoPrev
    /\ \E ready \in BOOLEAN :
         /\ sd_faulted' = ~ready
         /\ sd_pc' = IF ~ready THEN "aborted"
                     ELSE IF Len(sd_data.terms) > 0 THEN "terms"
                     ELSE IF Len(sd_data.relationships) > 0 THEN "rels" ELSE "completed"
    /\ sd_i' = 1
    /\ sd_attempt' = 0
    /\ sd_term_map' = <<>>
    /\ sd_last' = NoLast
    /\ sd_created' = NoCreated
    /\ sd_lost' = {}
    /\ UNCHANGED <<sd_data, store_vars, gw_vars, rt_vars, aux_vars>>

\* the answer to one AddTerm attempt was lost on its way back
LOST == "LOST"

\* faults of one AddTerm attempt of the seeder: those of any downstream call, and
\* the call being applied by the term store while the seeder gets UNAVAILABLE
SeedFaults == Faults \cup {LOST}

\* the terms table after INSERT INTO terms (id, name, definition)
TermInserted(term_id, name, definition) ==
    [i \in DOMAIN terms \cup {term_id} |->
        IF i = term_id THEN [name |-> name, definition |-> definition] ELSE terms[i]]

\* one attempt of _call_with_retry(stub.AddTerm, req) in the term loop, and, when
\* it is the last one, lines 128-138
SeedAddTerm ==
    /\ sd_pc = "terms"
    /\ \E fault \in SeedFaults, term_id \in TermIds \ DOMAIN terms :
         LET t == sd_data.terms[sd_i]
             stored == GlossaryAddTermCode(t.name, t.definition,
                                           IF fault = LOST THEN None ELSE fault)
             code == IF fault = LOST THEN UNAVAILABLE ELSE stored
             d == RetryDecision(sd_attempt, max_retries_default, code)
             h == TermPhaseDecision("AddTerm", code)
         IN
         /\ sd_faulted' = (sd_faulted \/ fault # None)
         /\ terms' = IF stored = OK THEN TermInserted(term_id, t.name, t.definition)
                     ELSE terms
         /\ sd_lost' = IF stored = OK /\ fault = LOST THEN sd_lost \cup {sd_i} ELSE sd_lost
         /\ IF d = "sleep" /\ sd_attempt + 1 < max_retries_default
            THEN /\ sd_attempt' = sd_attempt + 1
                 /\ UNCHANGED <<sd_pc, sd_i, sd_term_map, sd_last, sd_created>>
            ELSE /\ sd_attempt' = 0
                 /\ sd_last' = [op |-> "AddTerm", i |-> sd_i, code |-> code]
                 /\ IF d = "return" /\ h = "record"
                    THEN /\ sd_term_map' = TermMapPut(sd_term_map, t.name, term_id)
                         /\ sd_created' = [sd_created EXCEPT !.terms = @ + 1]
                         /\ sd_pc' = AfterTermPc
                         /\ sd_i' = AfterTermIdx
                    ELSE IF d = "raise" /\ h = "lookup"
                    THEN /\ sd_pc' = "lookup"
                         /\ UNCHANGED <<sd_i, sd_term_map, sd_created>>
                    ELSE \* `raise`, or new_term is None: the outer except ends the run
                         /\ sd_pc' = "aborted"
                         /\ UNCHANGED <<sd_i, sd_term_map, sd_created>>
    /\ UNCHANGED <<rels, sd_data, sd_run, sd_prev, gw_vars, rt_vars, aux_vars>>

\* one attempt of _call_with_retry(stub.GetTermByName, req) in the except branch of
\* the term loop, and, when it is the last one, line 135; the gateway's
\* GetTermByName answers with the code of the term store's GetTermByName
SeedGetTermByName ==
    /\ sd_pc = "lookup"
    /\ \E fault \in Faults :
         LET t == sd_data.terms[sd_i]
             r == GlossaryGetTermByName(t.name, fault)
             d == RetryDecision(sd_attempt, max_retries_default, r.code)
             h == TermPhaseDecision("GetTermByName", r.code)
         IN
         /\ sd_faulted' = (sd_faulted \/ fault # None)
         /\ IF d = "sleep" /\ sd_attempt + 1 < max_retries_default
            THEN /\ sd_attempt' = sd_attempt + 1
                 /\ UNCHANGED <<sd_pc, sd_i, sd_term_map, sd_last>>
            ELSE /\ sd_attempt' = 0
                 /\ sd_last' = [op |-> "GetTermByName", i |-> sd_i, code |-> r.code]
                 /\ IF d = "return" /\ h = "record"
                    THEN /\ sd_term_map' = TermMapPut(sd_term_map, t.name, r.term.id)
                         /\ sd_pc' = AfterTermPc
                         /\ sd_i' = AfterTermIdx
                    ELSE /\ sd_pc' = "aborted"
                         /\ UNCHANGED <<sd_i, sd_term_map>>
    /\ UNCHANGED <<store_vars, sd_data, sd_run, sd_created, sd_prev, sd_lost, gw_vars, rt_vars, aux_vars>>

\* lines 142-146: an endpoint without identifier in term_map: `continue`
SeedSkipRelationship ==
    /\ sd_pc = "rels"
    /\ LET rel == sd_data.relationships[sd_i] IN
       SkipsRelationship(TermMapGet(sd_term_map, rel[1]), TermMapGet(sd_term_map, rel[2]))
    /\ sd_last' = [op |-> "skip", i |-> sd_i, code |-> None]
    /\ sd_pc' = AfterRelationshipPc
    /\ sd_i' = AfterRelationshipIdx
    /\ UNCHANGED <<store_vars, sd_data, sd_run, sd_attempt, sd_term_map, sd_created,
                   sd_faulted, sd_prev, sd_lost, gw_vars, rt_vars, aux_vars>>

\* one attempt of _call_with_retry(stub.AddRelationship, req) in the relationship
\* loop, and, when it is the last one, lines 153-162
SeedAddRelationship ==
    /\ sd_pc = "rels"
    /\ LET rel == sd_data.relationships[sd_i]
           from_id == TermMapGet(sd_term_map, rel[1])
           to_id == TermMapGet(sd_term_map, rel[2])
           row == [from_term_id |-> RequestField(from_id),
                   to_term_id |-> RequestField(to_id),
                   type |-> get_relationship_type_enum(rel[3])]
       IN
       /\ ~SkipsRelationship(from_id, to_id)
       /\ \E fault \in Faults :
            LET code == GraphAddRelationshipCode(row.from_term_id, row.to_term_id,
                                                 row.type, fault)
                d == RetryDecision(sd_attempt, max_retries_default, code)
                h == RelationshipPhaseDecision(code)
            IN
            /\ sd_faulted' = (sd_faulted \/ fault # None)
            /\ IF d = "sleep" /\ sd_attempt + 1 < max_retries_default
               THEN /\ sd_attempt' = sd_attempt + 1
                    /\ UNCHANGED <<rels, sd_pc, sd_i, sd_last, sd_created>>
               ELSE /\ sd_attempt' = 0
                    /\ sd_last' = [op |-> "AddRelationship", i |-> sd_i, code |-> code]
                    /\ rels' = IF code = OK THEN rels \cup {row} ELSE rels
                    /\ sd_created' = IF d = "return"
                                     THEN [sd_created EXCEPT !.relationships = @ + 1]
                                     ELSE sd_created
                    /\ IF d = "return" \/ (d = "raise" /\ h = "next")
                       THEN /\ sd_pc' = AfterRelationshipPc
                            /\ sd_i' = AfterRelationshipIdx
                       ELSE /\ sd_pc' = "aborted"
                            /\ sd_i' = sd_i
    /\ UNCHANGED <<terms, sd_data, sd_run, sd_term_map, sd_prev, sd_lost, gw_vars, rt_vars, aux_vars>>

\* GatewayServer.AddTerm for another client, before the seeder's first run
ClientAddTerm ==
    /\ sd_pc = "idle"
    /\ sd_run = 0
    /\ GlossaryAddTerm
    /\ UNCHANGED <<gw_vars, rt_vars, sd_vars, aux_vars>>

\* GatewayServer.DeleteTerm for another client, before the seeder's first run
ClientDeleteTerm ==
    /\ sd_pc = "idle"
    /\ sd_run = 0
    /\ GlossaryDeleteTerm
    /\ UNCHANGED <<gw_vars, rt_vars, sd_vars, aux_vars>>

\* GatewayServer.AddRelationship for another client, before the seeder's first run
ClientAddRelationship ==
    /\ sd_pc = "idle"
    /\ sd_run = 0
    /\ GraphAddRelationship
    /\ UNCHANGED <<gw_vars, rt_vars, sd_vars, aux_vars>>

SeederNext ==
    \/ RunSeeder
    \/ SeedAddTerm
    \/ SeedGetTermByName
    \/ SeedSkipRelationship
    \/ SeedAddRelationship
    \/ ClientAddTerm
    \/ ClientDeleteTerm
    \/ ClientAddRelationship

(***************************************************************************)
(* The gateway's proxies and SearchTerms when the downstream call raises:   *)
(* the except branch of each handler                                        *)
(***************************************************************************)

\* status code of GlossaryServicer.UpdateTerm
GlossaryUpdateTermCode(id, name, definition, fault) ==
    IF fault = UNAVAILABLE THEN UNAVAILABLE
    ELSE IF id = "" \/ name = "" \/ definition = "" THEN INVALID_ARGUMENT
    ELSE IF fault = INTERNAL THEN INTERNAL
    ELSE IF id \notin DOMAIN terms THEN NOT_FOUND
    ELSE IF \E i \in DOMAIN terms : i # id /\ terms[i].name = name THEN ALREADY_EXISTS
    ELSE OK

\* status code of GlossaryServicer.DeleteTerm
GlossaryDeleteTermCode(id, fault) ==
    IF fault = UNAVAILABLE THEN UNAVAILABLE
    ELSE IF id = "" THEN INVALID_ARGUMENT
    ELSE IF fault = INTERNAL THEN INTERNAL
    ELSE IF id \notin DOMAIN terms THEN NOT_FOUND
    ELSE OK

\* status code of GlossaryServicer.GetAllTerms
GlossaryGetAllTermsCode(fault) ==
    IF fault = None THEN OK ELSE fault

\* status code of GlossaryServicer.SearchTerms: an empty query is answered with
\* an empty list before the database is read
GlossarySearchTermsCode(query, fault) ==
    IF fault = UNAVAILABLE THEN UNAVAILABLE
    ELSE IF query = "" THEN OK
    ELSE IF fault = INTERNAL THEN INTERNAL
    ELSE OK

\* status code of GraphServicer.DeleteRelationship
GraphDeleteRelationshipCode(f, t, ty, fault) ==
    IF fault = UNAVAILABLE THEN UNAVAILABLE
    ELSE IF f = "" \/ t = "" THEN INVALID_ARGUMENT
    ELSE IF fault = INTERNAL THEN INTERNAL
    ELSE IF [from_term_id |-> f, to_term_id |-> t, type |-> ty] \notin rels THEN NOT_FOUND
    ELSE OK

\* a response message with no field set, under the context's code
EmptyResponse(code) ==
    [code |-> code, term |-> EmptyTerm, relationships |-> <<>>,
     nodes |-> <<>>, edges |-> <<>>]

\* `except grpc.RpcError as e: handle_rpc_error(e, context); return <empty message>`
\* of the handler op, whose downstream call raised with code
DownstreamCallFailed(op, arg, code) ==
    /\ gw_pc = "idle"
    /\ code # OK
    /\ gw_pc' = "done"
    /\ gw_req' = [op |-> op, arg |-> arg]
    /\ gw_resp' = EmptyResponse(HandleRpcError(code))
    /\ gw_down' = [central |-> None, rels |-> None, proxy |-> code]
    /\ gw_term' = EmptyTerm
    /\ gw_rels' = <<>>
    /\ gw_pending' = {}
    /\ gw_lookup' = <<>>
    /\ gw_calls' = NoCalls
    /\ gw_failed' = {}
    /\ gw_writes' = 0
    /\ UNCHANGED <<store_vars, rt_vars, sd_vars, aux_vars>>

\* GatewayServer.AddTerm when glossary_stub.AddTerm raises
AddTermFails ==
    \E name \in ReqNames, definition \in Definitions, fault \in Faults :
        DownstreamCallFailed("AddTerm", name, GlossaryAddTermCode(name, definition, fault))

\* GatewayServer.GetAllTerms when glossary_stub.GetAllTerms raises
GetAllTermsFails ==
    \E fault \in Faults :
        DownstreamCallFailed("GetAllTerms", "", GlossaryGetAllTermsCode(fault))

\* GatewayServer.UpdateTerm when glossary_stub.UpdateTerm raises
UpdateTermFails ==
    \E id \in ReqIds, name \in ReqNames, definition \in Definitions, fault \in Faults :
        DownstreamCallFailed("UpdateTerm", id,
                             GlossaryUpdateTermCode(id, name, definition, fault))

\* GatewayServer.DeleteTerm when glossary_stub.DeleteTerm raises
DeleteTermFails ==
    \E id \in ReqIds, fault \in Faults :
        DownstreamCallFailed("DeleteTerm", id, GlossaryDeleteTermCode(id, fault))

\* GatewayServer.AddRelationship when graph_stub.AddRelationship raises
AddRelationshipFails ==
    \E f \in ReqIds, t \in ReqIds, ty \in RelTypes, fault \in Faults :
        DownstreamCallFailed("AddRelationship",
                             [from_term_id |-> f, to_term_id |-> t, type |-> ty],
                             GraphAddRelationshipCode(f, t, ty, fault))

\* GatewayServer.GetRelationshipsForTerm when graph_stub.GetRelationshipsForTerm raises
GetRelationshipsForTermFails ==
    \E term_id \in ReqIds, fault \in Faults :
        DownstreamCallFailed("GetRelationshipsForTerm", term_id,
                             GraphGetRelationshipsForTerm(term_id, fault).code)

\* GatewayServer.DeleteRelationship when graph_stub.DeleteRelationship raises
DeleteRelationshipFails ==
    \E f \in ReqIds, t \in ReqIds, ty \in RelTypes, fault \in Faults :
        DownstreamCallFailed("DeleteRelationship", f,
                             GraphDeleteRelationshipCode(f, t, ty, fault))

\* GatewayServer.SearchTerms when glossary_stub.SearchTerms raises
SearchTermsFails ==
    \E query \in ReqNames, fault \in Faults :
        DownstreamCallFailed("SearchTerms", query, GlossarySearchTermsCode(query, fault))

(***************************************************************************)
(* The two backends at the level of their tables: every handler statement  *)
(* is one sqlite statement on its own connection, the constraints of the    *)
(* schema are what makes an INSERT or UPDATE raise IntegrityError           *)
(***************************************************************************)

\* bound on the worker threads that have an UpdateTerm in flight
MaxWorkers == 2
Workers == 1..MaxWorkers

\* faults of one statement inside a backend: none, or a sqlite3.Error
StoreFaults == {None, INTERNAL}

TermRow(id, name, definition) == [id |-> id, name |-> name, definition |-> definition]
RelRow(f, t, ty) == [from_term_id |-> f, to_term_id |-> t, type |-> ty]

\* the rows of the terms table that `WHERE id = ?` selects, and the other rows
TermRowsWithId(table, id) == [r \in {x \in DOMAIN table : x.id = id} |-> table[r]]
TermRowsWithoutId(table, id) == [r \in {x \in DOMAIN table : x.id # id} |-> table[r]]

\* the relationships table after `DELETE ... WHERE from_term_id = ? AND to_term_id
\* = ? AND type = ?`
RelRowsOtherThan(table, row) == [r \in DOMAIN table \ {row} |-> table[r]]

\* mutant: the table terms has its PRIMARY KEY only, name is not UNIQUE
TermsIntegrityErrorNoUnique(table, row) ==
    \E r \in BagToSet(table) : r.id = row.id

\* CREATE TABLE terms (id TEXT PRIMARY KEY, name TEXT NOT NULL UNIQUE, ...): the
\* row cannot be added to the table
TermsIntegrityError(table, row) ==
    \E r \in BagToSet(table) : r.id = row.id \/ r.name = row.name

\* mutant: the table relationships has no key
RelationshipsIntegrityErrorNoKey(table, row) == FALSE

\* CREATE TABLE relationships (..., PRIMARY KEY (from_term_id, to_term_id, type))
RelationshipsIntegrityError(table, row) ==
    \E r \in BagToSet(table) :
        /\ r.from_term_id = row.from_term_id
        /\ r.to_term_id = row.to_term_id
        /\ r.type = row.type

NoCall == [op |-> None, req |-> None, code |-> None, n |-> 0]
NoReq == TermRow("", "", "")

\* init_db of both services on fresh database files, row by row
TablesInit ==
    /\ tb_terms = SetToBag({TermRow(InitialIds[i], INITIAL_TERMS[i].name,
                                    INITIAL_TERMS[i].definition) :
                               i \in DOMAIN INITIAL_TERMS})
    /\ tb_rels = EmptyBag
    /\ up_pc = [w \in Workers |-> "idle"]
    /\ up_req = [w \in Workers |-> NoReq]
    /\ sv_last = NoCall

\* the handler returns with the context's code
Answered(op, req, code) ==
    sv_last' = [op |-> op, req |-> req, code |-> code, n |-> 1 - sv_last.n]

\* GlossaryServicer.AddTerm: validation, uuid4, INSERT, commit
GlossaryServicerAddTerm ==
    /\ \E name \in ReqNames, definition \in Definitions, term_id \in TermIds,
          fault \in StoreFaults :
         LET row == TermRow(term_id, name, definition)
             code == IF name = "" \/ definition = "" THEN INVALID_ARGUMENT
                     ELSE IF fault = INTERNAL THEN INTERNAL
                     ELSE IF TermsIntegrityError(tb_terms, row) THEN ALREADY_EXISTS
                     ELSE OK
         IN
         /\ tb_terms' = IF code = OK THEN tb_terms (+) SetToBag({row}) ELSE tb_terms
         /\ Answered("AddTerm", TermRow("", name, definition), code)
    /\ UNCHANGED <<tb_rels, up_pc, up_req, rt_vars, store_vars, gw_vars, sd_vars, st_vars, gw_cancelled>>

\* GlossaryServicer.UpdateTerm up to its UPDATE: validation and
\* `SELECT id FROM terms WHERE id = ?` (lines 250-265)
GlossaryServicerUpdateTermSelect ==
    /\ \E w \in Workers, id \in ReqIds, name \in ReqNames, definition \in Definitions,
          fault \in StoreFaults :
         LET req == TermRow(id, name, definition)
             code == IF id = "" \/ name = "" \/ definition = "" THEN INVALID_ARGUMENT
                     ELSE IF fault = INTERNAL THEN INTERNAL
                     ELSE IF \A r \in BagToSet(tb_terms) : r.id # id THEN NOT_FOUND
                     ELSE OK
         IN
         /\ up_pc[w] = "idle"
         /\ IF code = OK
            THEN /\ up_pc' = [up_pc EXCEPT ![w] = "selected"]
                 /\ up_req' = [up_req EXCEPT ![w] = req]
                 /\ UNCHANGED sv_last
            ELSE /\ Answered("UpdateTerm", req, code)
                 /\ UNCHANGED <<up_pc, up_req>>
    /\ UNCHANGED <<tb_terms, tb_rels, rt_vars, store_vars, gw_vars, sd_vars, st_vars, gw_cancelled>>

\* GlossaryServicer.UpdateTerm from its UPDATE on (lines 267-289): an UPDATE that
\* matches no row changes nothing and raises nothing
GlossaryServicerUpdateTermWrite ==
    /\ \E w \in Workers, fault \in StoreFaults :
         LET req == up_req[w]
             matched == TermRowsWithId(tb_terms, req.id)
             others == TermRowsWithoutId(tb_terms, req.id)
             code == IF fault = INTERNAL THEN INTERNAL
                     ELSE IF DOMAIN matched # {} /\ TermsIntegrityError(others, req)
                          THEN ALREADY_EXISTS
                     ELSE OK
         IN
         /\ up_pc[w] = "selected"
         /\ tb_terms' = IF code = OK /\ DOMAIN matched # {}
                        THEN others (+) SetToBag({req})
                        ELSE tb_terms
         /\ Answered("UpdateTerm", req, code)
         /\ up_pc' = [up_pc EXCEPT ![w] = "idle"]
         /\ up_req' = [up_req EXCEPT ![w] = NoReq]
    /\ UNCHANGED <<tb_rels, rt_vars, store_vars, gw_vars, sd_vars, st_vars, gw_cancelled>>

\* GlossaryServicer.DeleteTerm: validation, DELETE, commit, rowcount
GlossaryServicerDeleteTerm ==
    /\ \E id \in ReqIds, fault \in StoreFaults :
         LET code == IF id = "" THEN INVALID_ARGUMENT
                     ELSE IF fault = INTERNAL THEN INTERNAL
                     ELSE IF DOMAIN TermRowsWithId(tb_terms, id) = {} THEN NOT_FOUND
                     ELSE OK
         IN
         /\ tb_terms' = IF code = OK THEN TermRowsWithoutId(tb_terms, id) ELSE tb_terms
         /\ Answered("DeleteTerm", TermRow(id, "", ""), code)
    /\ UNCHANGED <<tb_rels, up_pc, up_req, rt_vars, store_vars, gw_vars, sd_vars, st_vars, gw_cancelled>>

\* GraphServicer.AddRelationship: validation, INSERT, commit
GraphServicerAddRelationship ==
    /\ \E f \in ReqIds, t \in ReqIds, ty \in RelTypes, fault \in StoreFaults :
         LET row == RelRow(f, t, ty)
             code == IF RelationshipRequestInvalid(f, t) THEN INVALID_ARGUMENT
                     ELSE IF fault = INTERNAL THEN INTERNAL
                     ELSE IF RelationshipsIntegrityError(tb_rels, row) THEN ALREADY_EXISTS
                     ELSE OK
         IN
         /\ code = OK => BagCardinality(tb_rels) < MaxRels
         /\ tb_rels' = IF code = OK THEN tb_rels (+) SetToBag({row}) ELSE tb_rels
         /\ Answered("AddRelationship", row, code)
    /\ UNCHANGED <<tb_terms, up_pc, up_req, rt_vars, store_vars, gw_vars, sd_vars, st_vars, gw_cancelled>>

\* GraphServicer.DeleteRelationship: validation, DELETE, commit, rowcount
GraphServicerDeleteRelationship ==
    /\ \E f \in ReqIds, t \in ReqIds, ty \in RelTypes, fault \in StoreFaults :
         LET row == RelRow(f, t, ty)
             code == IF f = "" \/ t = "" THEN INVALID_ARGUMENT
                     ELSE IF fault = INTERNAL THEN INTERNAL
                     ELSE IF ~BagIn(row, tb_rels) THEN NOT_FOUND
                     ELSE OK
         IN
         /\ tb_rels' = IF code = OK THEN RelRowsOtherThan(tb_rels, row) ELSE tb_rels
         /\ Answered("DeleteRelationship", row, code)
    /\ UNCHANGED <<tb_terms, up_pc, up_req, rt_vars, store_vars, gw_vars, sd_vars, st_vars, gw_cancelled>>

\* the term store's handlers, interleaved statement by statement
TermsNext ==
    \/ GlossaryServicerAddTerm
    \/ GlossaryServicerUpdateTermSelect
    \/ GlossaryServicerUpdateTermWrite
    \/ GlossaryServicerDeleteTerm

\* the relationship store's handlers
RelationshipsNext ==
    \/ GraphServicerAddRelationship
    \/ GraphServicerDeleteRelationship

(***************************************************************************)
(* The gateway process: serve() of run.py, GatewayServer.__init__ with     *)
(* wait_for_channel_ready, the seeder thread, and requests being handled    *)
(***************************************************************************)

\* max_retries of wait_for_channel_ready
channel_max_retries == 12

\* bound on the requests the started server handles in the model
MaxServed == 2

\* mutant: the server is started before the GatewayServer is constructed
ServeOrderStartFirst == <<"start", "construct", "spawn_seeder", "wait">>

\* serve(): GatewayServer(...) is constructed as the servicer, server.start(), the
\* seeder thread is started, server.wait_for_termination()
ServeOrder == <<"construct", "start", "spawn_seeder", "wait">>

\* serve() is about to execute the given step
MainAt(step) == mn_i \in DOMAIN ServeOrder /\ ServeOrder[mn_i] = step

\* no channel: the attribute is not assigned yet
NoChannel == [service |-> None, attempt |-> 0]
NoChannels == [glossary |-> NoChannel, graph |-> NoChannel]

\* both wait_for_channel_ready calls of GatewayServer.__init__ have returned
BothEstablished == gs_channels.glossary # NoChannel /\ gs_channels.graph # NoChannel

\* the channel the running invocation opened in its current attempt
CurrentChannel == [service |-> ch_service, attempt |-> ch_attempt]

\* mutant: the loop makes one more pass
EstablishContinuesOneMore(attempt) == attempt <= channel_max_retries

\* `while attempt < max_retries`
EstablishContinues(attempt) == attempt < channel_max_retries

\* mutant: the channel of a timed-out attempt is left open
ChannelsAfterTimeoutLeak(open, channel) == open

\* `if channel: channel.close()`
ChannelsAfterTimeout(open, channel) == open \ {channel}

StartupInit ==
    /\ mn_i = 1
    /\ ch_pc = "idle"
    /\ ch_service = None
    /\ ch_attempt = 0
    /\ ch_timeouts = 0
    /\ ch_open = {}
    /\ gs_channels = NoChannels
    /\ srv_started = FALSE
    /\ srv_served = 0
    /\ srv_unready = FALSE
    /\ sdt_pc = "none"
    /\ sdt_runs = 0
    /\ sdt_seeded = FALSE
    /\ gw_reachable = FALSE
    /\ sdt_event = "none"
    /\ srv_last = "none"

\* GatewayServer.__init__ calls wait_for_channel_ready: for the term store first,
\* for the relationship store when that call has returned (lines 38-41)
WaitForChannelReady ==
    /\ MainAt("construct")
    /\ ch_pc \in {"idle", "returned"}
    /\ gs_channels.graph = NoChannel
    /\ ch_service' = IF gs_channels.glossary = NoChannel THEN "Glossary Service"
                     ELSE "Graph Service"
    /\ ch_pc' = "loop"
    /\ ch_attempt' = 0
    /\ ch_timeouts' = 0
    /\ UNCHANGED <<mn_i, ch_open, gs_channels, srv_started, srv_served, srv_unready,
                   sdt_pc, sdt_runs, sdt_seeded, gw_reachable,
                   rt_vars, store_vars, gw_vars, sd_vars, tb_vars,
                   sdt_event, srv_last, gw_cancelled>>

\* one pass of the loop up to the readiness wait: attempt += 1, secure_channel
ChannelAttempt ==
    /\ ch_pc = "loop"
    /\ EstablishContinues(ch_attempt)
    /\ ch_attempt' = ch_attempt + 1
    /\ ch_open' = ch_open \cup {[service |-> ch_service, attempt |-> ch_attempt + 1]}
    /\ ch_pc' = "waiting"
    /\ UNCHANGED <<mn_i, ch_service, ch_timeouts, gs_channels, srv_started, srv_served,
                   srv_unready, sdt_pc, sdt_runs, sdt_seeded, gw_reachable,
                   rt_vars, store_vars, gw_vars, sd_vars, tb_vars,
                   sdt_event, srv_last, gw_cancelled>>

\* channel_ready_future(channel).result(timeout=5) returns: `return channel`, which
\* __init__ assigns to glossary_channel / graph_channel
ChannelReady ==
    /\ ch_pc = "waiting"
    /\ ch_pc' = "returned"
    /\ gs_channels' = IF ch_service = "Glossary Service"
                      THEN [gs_channels EXCEPT !.glossary = CurrentChannel]
                      ELSE [gs_channels EXCEPT !.graph = CurrentChannel]
    /\ UNCHANGED <<mn_i, ch_service, ch_attempt, ch_timeouts, ch_open, srv_started,
                   srv_served, srv_unready, sdt_pc, sdt_runs, sdt_seeded, gw_reachable,
                   rt_vars, store_vars, gw_vars, sd_vars, tb_vars,
                   sdt_event, srv_last, gw_cancelled>>

\* the wait raises FutureTimeoutError: close the channel, sleep, loop (lines 56-63)
ChannelTimeout ==
    /\ ch_pc = "waiting"
    /\ ch_timeouts' = ch_timeouts + 1
    /\ ch_open' = ChannelsAfterTimeout(ch_open, CurrentChannel)
    /\ ch_pc' = "loop"
    /\ UNCHANGED <<mn_i, ch_service, ch_attempt, gs_channels, srv_started, srv_served,
                   srv_unready, sdt_pc, sdt_runs, sdt_seeded, gw_reachable,
                   rt_vars, store_vars, gw_vars, sd_vars, tb_vars,
                   sdt_event, srv_last, gw_cancelled>>

\* the loop is left: raise RuntimeError, which nothing in __init__ or serve() catches
ChannelGiveUp ==
    /\ ch_pc = "loop"
    /\ ~EstablishContinues(ch_attempt)
    /\ ch_pc' = "raised"
    /\ mn_i' = 0
    /\ UNCHANGED <<ch_service, ch_attempt, ch_timeouts, ch_open, gs_channels, srv_started,
                   srv_served, srv_unready, sdt_pc, sdt_runs, sdt_seeded, gw_reachable,
                   rt_vars, store_vars, gw_vars, sd_vars, tb_vars,
                   sdt_event, srv_last, gw_cancelled>>

\* both channels are there: the stubs are built and __init__ returns
GatewayServerConstructed ==
    /\ MainAt("construct")
    /\ ch_pc = "returned"
    /\ BothEstablished
    /\ ch_pc' = "idle"
    /\ mn_i' = mn_i + 1
    /\ UNCHANGED <<ch_service, ch_attempt, ch_timeouts, ch_open, gs_channels, srv_started,
                   srv_served, srv_unready, sdt_pc, sdt_runs, sdt_seeded, gw_reachable,
                   rt_vars, store_vars, gw_vars, sd_vars, tb_vars,
                   sdt_event, srv_last, gw_cancelled>>

\* server.start()
ServerStart ==
    /\ MainAt("start")
    /\ srv_started' = TRUE
    /\ mn_i' = mn_i + 1
    /\ UNCHANGED <<ch_pc, ch_service, ch_attempt, ch_timeouts, ch_open, gs_channels,
                   srv_served, srv_unready, sdt_pc, sdt_runs, sdt_seeded, gw_reachable,
                   rt_vars, store_vars, gw_vars, sd_vars, tb_vars,
                   sdt_event, srv_last, gw_cancelled>>

\* threading.Thread(target=seed_in_background, daemon=True).start()
SpawnSeeder ==
    /\ MainAt("spawn_seeder")
    /\ sdt_pc' = "sleeping"
    /\ mn_i' = mn_i + 1
    /\ UNCHANGED <<ch_pc, ch_service, ch_attempt, ch_timeouts, ch_open, gs_channels,
                   srv_started, srv_served, srv_unready, sdt_runs, sdt_seeded,
                   gw_reachable, rt_vars, store_vars, gw_vars, sd_vars, tb_vars,
                   sdt_event, srv_last, gw_cancelled>>

\* seed_in_background: time.sleep(15) is over, run_seeder(gateway_host) is called
SeederWakes ==
    /\ sdt_pc = "sleeping"
    /\ sdt_pc' = "connecting"
    /\ sdt_runs' = sdt_runs + 1
    /\ UNCHANGED <<mn_i, ch_pc, ch_service, ch_attempt, ch_timeouts, ch_open, gs_channels,
                   srv_started, srv_served, srv_unready, sdt_seeded, gw_reachable,
                   rt_vars, store_vars, gw_vars, sd_vars, tb_vars,
                   sdt_event, srv_last, gw_cancelled>>

\* run_seeder: channel_ready_future(channel).result(timeout=10) returns
SeederConnects ==
    /\ sdt_pc = "connecting"
    /\ gw_reachable
    /\ sdt_pc' = "seeding"
    /\ sdt_seeded' = TRUE
    /\ UNCHANGED <<mn_i, ch_pc, ch_service, ch_attempt, ch_timeouts, ch_open, gs_channels,
                   srv_started, srv_served, srv_unready, sdt_runs, gw_reachable,
                   rt_vars, store_vars, gw_vars, sd_vars, tb_vars,
                   sdt_event, srv_last, gw_cancelled>>

\* mutant: the outer except of run_seeder logs and re-raises
RunSeederEndsReraise(event) == IF event = "completed" THEN "returns" ELSE "raises"

\* lines 113 and 166-169 of seeder.py: whatever ends the try block, the
\* FutureTimeoutError of the readiness wait and the RpcError of a loop included,
\* `except Exception` logs it and run_seeder returns
RunSeederEnds(event) == "returns"

\* seed_in_background after run_seeder: the thread ends, in its own except branch
\* when run_seeder raised
AfterRunSeeder(event) == IF RunSeederEnds(event) = "returns" THEN "ended" ELSE "caught"

\* run_seeder: the wait raises FutureTimeoutError
SeederTimesOut ==
    /\ sdt_pc = "connecting"
    /\ ~gw_reachable
    /\ sdt_event' = "timeout"
    /\ sdt_pc' = AfterRunSeeder("timeout")
    /\ UNCHANGED <<mn_i, ch_pc, ch_service, ch_attempt, ch_timeouts, ch_open, gs_channels,
                   srv_started, srv_served, srv_unready, sdt_runs, sdt_seeded,
                   gw_reachable, rt_vars, store_vars, gw_vars, sd_vars, tb_vars,
                   srv_last, gw_cancelled>>

\* run_seeder: the two loops end, completed or left by a re-raised RpcError
SeederReturns ==
    /\ sdt_pc = "seeding"
    /\ \E event \in {"completed", "aborted"} :
         /\ sdt_event' = event
         /\ sdt_pc' = AfterRunSeeder(event)
    /\ UNCHANGED <<mn_i, ch_pc, ch_service, ch_attempt, ch_timeouts, ch_open, gs_channels,
                   srv_started, srv_served, srv_unready, sdt_runs, sdt_seeded,
                   gw_reachable, rt_vars, store_vars, gw_vars, sd_vars, tb_vars,
                   srv_last, gw_cancelled>>

\* the started server's port begins to answer the seeder's channel
GatewayReachable ==
    /\ srv_started
    /\ ~gw_reachable
    /\ gw_reachable' = TRUE
    /\ UNCHANGED <<mn_i, ch_pc, ch_service, ch_attempt, ch_timeouts, ch_open, gs_channels,
                   srv_started, srv_served, srv_unready, sdt_pc, sdt_runs, sdt_seeded,
                   rt_vars, store_vars, gw_vars, sd_vars, tb_vars,
                   sdt_event, srv_last, gw_cancelled>>

\* the downstream call of a handler that raised RpcError: none, the one call of a
\* proxy, the central fetch, the relationship fetch of _get_term_details or of
\* GetMindMapForTerm, a GetTerm of _get_term_lookup
FailedCalls == {"none", "proxied", "central", "details_relationships",
                "mind_map_relationships", "lookup"}

\* what the handler gives its caller: every stub call sits in a try whose
\* `except grpc.RpcError` either sets the code on the context and returns an empty
\* message, or leaves the part out of a successful response
HandlerAnswer(failed) ==
    IF failed = "none" THEN "ok"
    ELSE IF failed \in {"details_relationships", "lookup"} THEN "degraded"
    ELSE "error"

\* a worker of the started server handles a request
HandleRequest ==
    /\ srv_started
    /\ srv_served < MaxServed
    /\ srv_served' = srv_served + 1
    /\ srv_unready' = (srv_unready \/ ~BothEstablished)
    /\ \E failed \in FailedCalls : srv_last' = HandlerAnswer(failed)
    /\ UNCHANGED <<mn_i, ch_pc, ch_service, ch_attempt, ch_timeouts, ch_open, gs_channels,
                   srv_started, sdt_pc, sdt_runs, sdt_seeded, gw_reachable,
                   rt_vars, store_vars, gw_vars, sd_vars, tb_vars,
                   sdt_event, gw_cancelled>>

StartupNext ==
    \/ WaitForChannelReady
    \/ ChannelAttempt
    \/ ChannelReady
    \/ ChannelTimeout
    \/ ChannelGiveUp
    \/ GatewayServerConstructed
    \/ ServerStart
    \/ SpawnSeeder
    \/ SeederWakes
    \/ SeederConnects
    \/ SeederTimesOut
    \/ SeederReturns
    \/ GatewayReachable
    \/ HandleRequest

(***************************************************************************)
(* The caller of an orchestration request goes away while the handler runs *)
(***************************************************************************)

CancelInit == gw_cancelled = FALSE

\* the caller's deadline passes or it disconnects while the handler is between two
\* downstream calls: the server marks the context inactive; the handlers neither
\* read context.is_active() nor register a callback, and their stub calls carry
\* no deadline, so the handler's thread runs on unchanged
CallerCancels ==
    /\ gw_pc \in {"details", "lookup"}
    /\ ~gw_cancelled
    /\ gw_cancelled' = TRUE
    /\ UNCHANGED <<rt_vars, store_vars, gw_vars, sd_vars, tb_vars, st_vars>>

\* orchestration requests whose caller may go away, over stored relationships
CancelNext ==
    \/ GetTerm
    \/ GetTermDetails
    \/ TermLookup
    \/ GetMindMapForTerm
    \/ Respond
    \/ AddRelationship
    \/ CallerCancels

all_vars == <<rt_vars, store_vars, gw_vars, sd_vars, tb_vars, st_vars, gw_cancelled>>

Init ==
    /\ RetryInit /\ StoreInit /\ GwInit /\ SeederInit(SEED_DATA)
    /\ TablesInit /\ StartupInit /\ CancelInit

Next ==
    \/ GetTerm
    \/ GetTermByName
    \/ GetTermDetails
    \/ TermLookup
    \/ GetMindMapForTerm
    \/ Respond
    \/ AddTerm
    \/ DeleteTerm
    \/ AddRelationship
    \/ DeleteRelationship
    \/ AddTermFails
    \/ GetAllTermsFails
    \/ UpdateTermFails
    \/ DeleteTermFails
    \/ AddRelationshipFails
    \/ GetRelationshipsForTermFails
    \/ DeleteRelationshipFails
    \/ SearchTermsFails

\* the gateway serving requests while the stores are written
Spec == Init /\ [][Next]_all_vars

\* one invocation after another of _call_with_retry, the wrapped call answering freely
SpecRetry == Init /\ [][RetryNext]_all_vars

\* the seeder on each seed data set
SeederSpecInit ==
    /\ RetryInit /\ StoreInit /\ GwInit
    /\ \E data \in SeedDataSets : SeederInit(data)
    /\ TablesInit /\ StartupInit /\ CancelInit

SpecSeeder == SeederSpecInit /\ [][SeederNext]_all_vars

\* the term store serving its clients
SpecTerms == Init /\ [][TermsNext]_all_vars

\* the relationship store serving its clients
SpecRelationships == Init /\ [][RelationshipsNext]_all_vars

\* the gateway process from the call of serve()
SpecStartup == Init /\ [][StartupNext]_all_vars

\* the gateway serving orchestration requests whose caller may go away
SpecCancel == Init /\ [][CancelNext]_all_vars

(***************************************************************************)
(* Part 5.  Properties of _call_with_retry (checked under SpecRetry)       *)
(***************************************************************************)

\* the first n wrapped calls all raised UNAVAILABLE
AllUnavailable(n) == \A i \in 1..n : rt_calls[i].code = UNAVAILABLE

\* C1: for every k with 1 <= k <= max_retries, when the wrapped call raises
\* UNAVAILABLE on attempts 1..k-1 and answers on attempt k, _call_with_retry
\* returns that answer after exactly k attempts.  As long as every attempt so far
\* raised UNAVAILABLE and fewer than max_retries were made, the loop goes on to the
\* next attempt; an answer on attempt k ends the loop there with that answer.
C1_SuccessOnAttemptK ==
    rt_pc # "idle" =>
        /\ (AllUnavailable(Len(rt_calls)) /\ Len(rt_calls) < rt_max) => rt_pc = "loop"
        /\ \A k \in 1..Len(rt_calls) :
              (AllUnavailable(k - 1) /\ rt_calls[k].code = OK) =>
                  /\ k <= rt_max
                  /\ Len(rt_calls) = k
                  /\ rt_pc = "returned"
                  /\ rt_result = rt_calls[k].val

\* C1 witness: two UNAVAILABLE attempts, then the third answers and is returned
C1_Witness ==
    /\ rt_pc = "returned"
    /\ Len(rt_calls) = 3
    /\ AllUnavailable(2)
    /\ rt_calls[3].code = OK
    /\ rt_result = rt_calls[3].val
    /\ rt_result \in RetryValues

\* C2: an error other than UNAVAILABLE is raised to the caller on the attempt where
\* it occurs, with its own code, and no further attempt is made, also after earlier
\* UNAVAILABLE attempts; an error on the first attempt means exactly one attempt.
C2_OtherErrorsNotRetried ==
    \A i \in 1..Len(rt_calls) :
        rt_calls[i].code \in ErrorCodes \ {UNAVAILABLE} =>
            /\ Len(rt_calls) = i
            /\ rt_pc = "raised"
            /\ rt_result = rt_calls[i].code

\* C2 witness: NOT_FOUND on the third attempt, after two UNAVAILABLE ones, is raised
C2_Witness ==
    /\ rt_pc = "raised"
    /\ Len(rt_calls) = 3
    /\ AllUnavailable(2)
    /\ rt_calls[3].code = NOT_FOUND
    /\ rt_result = NOT_FOUND

\* C3: never more than max_retries attempts are made; when every attempt raised
\* UNAVAILABLE the function ends only after exactly max_retries attempts, by raising
\* UNAVAILABLE; and it always ends with an answer of the wrapped call or an error
\* (while it runs, fewer than max_retries attempts were made, so the next one is
\* within the bound).
C3_BoundedAttempts ==
    /\ Len(rt_calls) <= rt_max
    /\ rt_pc = "loop" => Len(rt_calls) < rt_max
    /\ (rt_pc \in {"returned", "raised"} /\ AllUnavailable(Len(rt_calls))) =>
          /\ Len(rt_calls) = rt_max
          /\ rt_pc = "raised"
          /\ rt_result = UNAVAILABLE
    /\ rt_pc = "returned" => rt_result \in RetryValues
    /\ rt_pc = "raised" => rt_result \in ErrorCodes

\* C3 witness: max_retries = 5 and five UNAVAILABLE attempts, then UNAVAILABLE raised
C3_Witness ==
    /\ rt_pc = "raised"
    /\ rt_max = max_retries_default
    /\ Len(rt_calls) = rt_max
    /\ AllUnavailable(rt_max)
    /\ rt_result = UNAVAILABLE

(***************************************************************************)
(* Part 6.  Properties of the orchestration handlers (checked under Spec)  *)
(***************************************************************************)

\* the request in flight is GetEnrichedTerm (the gateway's GetTerm / GetTermByName)
IsEnriched == gw_req.op \in {"GetTerm", "GetTermByName"}
IsMindMap == gw_req.op = "GetMindMapForTerm"

\* the request got as far as calling _get_term_lookup
LookupEntered ==
    /\ gw_down.rels = OK
    /\ IsEnriched => gw_rels # <<>>

\* the set of identifiers handed to _get_term_lookup
LookupArgument ==
    IF IsMindMap THEN {gw_req.arg} \cup Endpoints(gw_rels) ELSE Endpoints(gw_rels)

\* identifiers _get_term_lookup has called GetTerm for
LookedUp == {id \in TermIds : gw_calls.lookup[id] > 0}

\* C4: when the central fetch of GetEnrichedTerm fails, the operation fails with the
\* code of that fetch, the response carries no term and no relationship, and the
\* relationship store is not called.
C4_CentralFetchFailure ==
    (gw_pc = "done" /\ IsEnriched /\ gw_down.central # OK) =>
        /\ gw_resp.code = gw_down.central
        /\ gw_resp.code \in ErrorCodes
        /\ gw_resp.term = EmptyTerm
        /\ gw_resp.relationships = <<>>
        /\ gw_calls.get_relationships = 0
        /\ gw_down.rels = None

\* C4 witness: GetTerm of an identifier the term store does not hold, relationships
\* touching it being stored, ends NOT_FOUND
C4_Witness ==
    /\ gw_pc = "done"
    /\ gw_req.op = "GetTerm"
    /\ gw_down.central = NOT_FOUND
    /\ gw_resp.code = NOT_FOUND
    /\ \E r \in rels : r.from_term_id = gw_req.arg

\* C5: when the central term was fetched and the relationship fetch fails, with
\* whatever code, the response is a success carrying the term and no relationship.
C5_RelationshipFetchDegrades ==
    (gw_pc = "done" /\ IsEnriched /\ gw_down.central = OK /\ gw_down.rels \in ErrorCodes) =>
        /\ gw_resp.code = OK
        /\ gw_resp.term = gw_term
        /\ gw_resp.term.id \in TermIds
        /\ gw_resp.relationships = <<>>

\* C5 witness: the relationship store is unreachable while it holds relationships
\* of the term; the response is the term alone
C5_Witness ==
    /\ gw_pc = "done"
    /\ gw_req.op = "GetTerm"
    /\ gw_down.central = OK
    /\ gw_down.rels = UNAVAILABLE
    /\ gw_resp.code = OK
    /\ gw_resp.term.id = gw_req.arg
    /\ gw_resp.relationships = <<>>
    /\ \E r \in rels : r.from_term_id = gw_req.arg

\* an endpoint of a received relationship that is not a key of term_lookup when the
\* enriched records are built (the central term is a key: its entry is added when
\* its own lookup failed)
UnresolvedEndpoints == Endpoints(gw_rels) \ DictKeys(gw_lookup)

\* C6: the response of GetEnrichedTerm holds at most as many relationships as the
\* relationship store returned, and strictly fewer when an endpoint of a returned
\* relationship did not resolve in term_lookup.
C6_EnrichedCount ==
    (gw_pc = "done" /\ IsEnriched /\ gw_down.rels = OK) =>
        /\ Len(gw_resp.relationships) <= Len(gw_rels)
        /\ UnresolvedEndpoints # {} => Len(gw_resp.relationships) < Len(gw_rels)

\* C6 witness: two relationships returned, one neighbour resolved and one not:
\* exactly one enriched record
C6_Witness ==
    /\ gw_pc = "done"
    /\ IsEnriched
    /\ gw_down.rels = OK
    /\ Len(gw_rels) = 2
    /\ Cardinality(UnresolvedEndpoints) = 1
    /\ Len(gw_resp.relationships) = 1

\* C7 (as claimed): within one GetEnrichedTerm call no identifier, the central
\* term's included, is fetched from the term store more than once.  The handlers
\* fetch the central term first and _get_term_lookup fetches it again.
C7_EachTermFetchedOnce ==
    IsEnriched =>
        /\ \A id \in ReqIds : gw_calls.get_term[id] <= 1
        /\ gw_term.id \in TermIds => gw_calls.lookup[gw_term.id] = 0

\* C8: _get_term_lookup calls GetTerm at most once per identifier, whatever the
\* number of relationships naming it: the identifiers called and those still to
\* visit partition the set it was given, and at its end the calls made are as many
\* as the distinct identifiers.
C8_OneLookupPerIdentifier ==
    /\ \A id \in TermIds : gw_calls.lookup[id] <= 1
    /\ ~LookupEntered => LookedUp = {}
    /\ (LookupEntered /\ gw_pc = "lookup") =>
          /\ LookedUp \cup gw_pending = LookupArgument
          /\ LookedUp \cap gw_pending = {}
    /\ (LookupEntered /\ gw_pc = "done") => LookedUp = LookupArgument

\* C8 witness: two relationships with four endpoints over three identifiers: three
\* calls, one per identifier
C8_Witness ==
    /\ gw_pc = "done"
    /\ LookupEntered
    /\ Len(gw_rels) = 2
    /\ Cardinality(LookupArgument) = 3
    /\ \A id \in LookupArgument : gw_calls.lookup[id] = 1

\* C9: a failed lookup does not abort _get_term_lookup: every identifier of the set
\* is looked up, also after a failure, the mapping holds exactly the identifiers
\* whose lookup succeeded (plus, in _get_term_details, the central term's own entry),
\* and the orchestrating handler answers with success.
C9_FailedLookupOmitted ==
    /\ (LookupEntered /\ gw_pc = "lookup") => DictKeys(gw_lookup) = LookedUp \ gw_failed
    /\ (LookupEntered /\ gw_pc = "done") =>
          /\ LookedUp = LookupArgument
          /\ gw_failed \subseteq LookedUp
          /\ DictKeys(gw_lookup) =
                (LookupArgument \ gw_failed) \cup (IF IsEnriched THEN {gw_term.id} ELSE {})
          /\ gw_resp.code = OK

\* C9 witness: a mind map over three identifiers, one lookup failed, the other two
\* are in the mapping
C9_Witness ==
    /\ gw_pc = "done"
    /\ IsMindMap
    /\ LookupEntered
    /\ Cardinality(LookupArgument) = 3
    /\ Cardinality(gw_failed) = 1
    /\ Cardinality(DictKeys(gw_lookup)) = 2

\* C10 (as claimed): every successful GetMindMap(term_id) response holds a node
\* whose identifier is term_id, also with no relationship.  The handler emits that
\* node only when the term store answered the lookup of term_id.
C10_RequestedTermIsNode ==
    (gw_pc = "done" /\ IsMindMap /\ gw_resp.code = OK) =>
        \E i \in DOMAIN gw_resp.nodes : gw_resp.nodes[i].id = gw_req.arg

(***************************************************************************)
(* Part 7.  Properties of GetMindMapForTerm (checked under Spec)           *)
(***************************************************************************)

\* a GetMindMapForTerm handler has returned
MindMapDone == gw_pc = "done" /\ IsMindMap

\* identifiers of the nodes of the response
NodeIds == {gw_resp.nodes[i].id : i \in DOMAIN gw_resp.nodes}

\* identifiers the edges of the response refer to
EdgeEndpoints ==
    {gw_resp.edges[i].from_id : i \in DOMAIN gw_resp.edges}
        \cup {gw_resp.edges[i].to_id : i \in DOMAIN gw_resp.edges}

\* C11: in every successful GetMindMap response there are as many edges as the
\* relationship store returned relationships, and the i-th edge has the from and to
\* identifiers of the i-th relationship, whichever lookups failed.
C11_EveryRelationshipIsAnEdge ==
    (MindMapDone /\ gw_resp.code = OK) =>
        /\ Len(gw_resp.edges) = Len(gw_rels)
        /\ \A i \in DOMAIN gw_rels :
              /\ gw_resp.edges[i].from_id = gw_rels[i].from_term_id
              /\ gw_resp.edges[i].to_id = gw_rels[i].to_term_id

\* C11 witness: two relationships returned, a neighbour's lookup failed, two edges
C11_Witness ==
    /\ MindMapDone
    /\ gw_resp.code = OK
    /\ Len(gw_rels) = 2
    /\ gw_failed # {}
    /\ gw_req.arg \notin gw_failed
    /\ Len(gw_resp.edges) = 2

\* C12: in every GetMindMap response an identifier an edge refers to is missing from
\* the nodes only if the term store lookup of that identifier failed in this call,
\* and a response with such a dangling edge is a success.
C12_DanglingOnlyAfterFailedLookup ==
    MindMapDone =>
        /\ \A id \in EdgeEndpoints \ NodeIds : id \in gw_failed /\ gw_calls.lookup[id] = 1
        /\ EdgeEndpoints \ NodeIds # {} => gw_resp.code = OK

\* C12 witness: the neighbour was deleted from the term store, its lookup failed, the
\* edge to it is reported and it is no node
C12_Witness ==
    /\ MindMapDone
    /\ gw_resp.code = OK
    /\ \E id \in EdgeEndpoints \ NodeIds : id # gw_req.arg /\ id \notin DOMAIN terms
    /\ gw_req.arg \in NodeIds

\* C13: in every GetMindMap response no two nodes have the same identifier, and
\* every node is for an identifier whose term store lookup succeeded in this call.
C13_NodesDistinctAndResolved ==
    MindMapDone =>
        /\ \A i, j \in DOMAIN gw_resp.nodes :
              gw_resp.nodes[i].id = gw_resp.nodes[j].id => i = j
        /\ NodeIds \subseteq LookedUp \ gw_failed

\* C13 witness: three identifiers looked up, two lookups failed, one node
C13_Witness ==
    /\ MindMapDone
    /\ Cardinality(LookedUp) = 3
    /\ Cardinality(gw_failed) = 2
    /\ Len(gw_resp.nodes) = 1

\* C14: when the relationship fetch of GetMindMap fails the operation fails with the
\* code of that fetch, the response has no node and no edge, and the term store is
\* not called.
C14_MindMapRelationshipFetchFailure ==
    (MindMapDone /\ gw_down.rels # OK) =>
        /\ gw_down.rels \in ErrorCodes
        /\ gw_resp.code = gw_down.rels
        /\ gw_resp.nodes = <<>>
        /\ gw_resp.edges = <<>>
        /\ LookedUp = {}
        /\ \A id \in ReqIds : gw_calls.get_term[id] = 0
        /\ gw_calls.get_term_by_name = 0

\* C14 witness: the relationship store fails with INTERNAL while it holds
\* relationships of a stored term
C14_Witness ==
    /\ MindMapDone
    /\ gw_down.rels = INTERNAL
    /\ gw_resp.code = INTERNAL
    /\ gw_req.arg \in DOMAIN terms
    /\ \E r \in rels : r.from_term_id = gw_req.arg

\* C15: when every term lookup succeeds, the node identifiers of GetMindMap(term_id)
\* are term_id and both endpoints of every relationship received, each of which
\* touches term_id, and the edges are those relationships in order, labelled with
\* the name of their kind.
C15_MindMapWhenAllResolve ==
    (MindMapDone /\ gw_resp.code = OK /\ gw_failed = {}) =>
        /\ NodeIds = {gw_req.arg} \cup Endpoints(gw_rels)
        /\ Len(gw_resp.nodes) = Cardinality(NodeIds)
        /\ \A i \in DOMAIN gw_rels :
              gw_req.arg \in {gw_rels[i].from_term_id, gw_rels[i].to_term_id}
        /\ \A i, j \in DOMAIN gw_rels : gw_rels[i] = gw_rels[j] => i = j
        /\ gw_resp.edges =
              [i \in DOMAIN gw_rels |->
                  [from_id |-> gw_rels[i].from_term_id,
                   to_id |-> gw_rels[i].to_term_id,
                   label |-> CHOOSE k \in DOMAIN RelationshipType :
                                 RelationshipType[k] = gw_rels[i].type]]

\* C15 witness: terms id1 and id2, the relationship (id1, id2, RELATED_TO):
\* GetMindMap(id1) gives the nodes id1 and id2 and the edge id1 -> id2 RELATED_TO
C15_Witness ==
    /\ MindMapDone
    /\ gw_req.arg = "id1"
    /\ DOMAIN terms = {"id1", "id2"}
    /\ rels = {[from_term_id |-> "id1", to_term_id |-> "id2", type |-> 1]}
    /\ gw_failed = {}
    /\ NodeIds = {"id1", "id2"}
    /\ gw_resp.edges = <<[from_id |-> "id1", to_id |-> "id2", label |-> "RELATED_TO"]>>

(***************************************************************************)
(* Part 8.  Properties of run_seeder (checked under SpecSeeder)            *)
(***************************************************************************)

\* name of the seed term at position i of the term list
SeedName(i) == sd_data.terms[i].name

\* the seed relationship at position i names a term without identifier in term_map
EndpointMissing(i) ==
    \/ sd_data.relationships[i][1] \notin DOMAIN sd_term_map
    \/ sd_data.relationships[i][2] \notin DOMAIN sd_term_map

\* C16: seeding is idempotent: in a run that follows a run completed with all
\* backends available, and in which the backends are available too, no term and no
\* relationship is created, both stores stay as the first run left them, and the
\* run does not abort.
C16_SeedingIdempotent ==
    (sd_prev.ok /\ ~sd_faulted) =>
        /\ sd_pc # "aborted"
        /\ sd_created = NoCreated
        /\ terms = sd_prev.terms
        /\ rels = sd_prev.rels

\* C16 witness: the first run created both terms and both relationships, the
\* second run has completed
C16_Witness ==
    /\ sd_pc = "completed"
    /\ sd_run = 2
    /\ sd_prev.ok
    /\ ~sd_faulted
    /\ sd_prev.created = [terms |-> 2, relationships |-> 2]
    /\ sd_created = NoCreated
    /\ Cardinality(rels) = 2

\* C17: in the term phase, after AddTerm ended with ALREADY_EXISTS the seeder looks
\* the term up by name (it does not abort); when the lookup answers, term_map has
\* under that name the identifier of the stored term of that name and the run goes
\* on with the next seed term, or with the relationships after the last one.
C17_AlreadyExistsTermIsLookedUp ==
    /\ (sd_last.op = "AddTerm" /\ sd_last.code = ALREADY_EXISTS) =>
          sd_pc = "lookup" /\ sd_i = sd_last.i
    /\ sd_pc = "lookup" =>
          sd_last = [op |-> "AddTerm", i |-> sd_i, code |-> ALREADY_EXISTS]
    /\ (sd_last.op = "GetTermByName" /\ sd_last.code = OK) =>
          /\ SeedName(sd_last.i) \in DOMAIN sd_term_map
          /\ sd_term_map[SeedName(sd_last.i)] \in DOMAIN terms
          /\ terms[sd_term_map[SeedName(sd_last.i)]].name = SeedName(sd_last.i)
          /\ IF sd_last.i < Len(sd_data.terms)
             THEN sd_pc = "terms" /\ sd_i = sd_last.i + 1
             ELSE sd_pc = "rels" /\ sd_i = 1

\* C17 witness: the first seed term was created, the second existed and was looked
\* up: both names are in term_map and the relationship phase has begun
C17_Witness ==
    /\ sd_run = 1
    /\ sd_pc = "rels"
    /\ sd_last = [op |-> "GetTermByName", i |-> 2, code |-> OK]
    /\ sd_created.terms = 1
    /\ DOMAIN sd_term_map = {"A", "B"}
    /\ sd_term_map["A"] # sd_term_map["B"]

\* a _call_with_retry of the term phase ended with a failure that is not the
\* ALREADY_EXISTS of AddTerm
TermPhaseFailed ==
    \/ sd_last.op = "AddTerm" /\ sd_last.code \notin {OK, ALREADY_EXISTS}
    \/ sd_last.op = "GetTermByName" /\ sd_last.code # OK

\* C18: in the term phase a failure other than ALREADY_EXISTS of AddTerm, also
\* UNAVAILABLE out of the retrier and a failed lookup by name, aborts the run, and
\* an aborted run calls nothing any more: until run_seeder is called again the
\* stores, the calls made and the CREATED count stay as they are.
C18_TermFailureAbortsRun ==
    /\ [](TermPhaseFailed => sd_pc = "aborted")
    /\ [][(sd_pc = "aborted" /\ sd_run' = sd_run) =>
             /\ sd_pc' = "aborted"
             /\ terms' = terms
             /\ rels' = rels
             /\ sd_last' = sd_last
             /\ sd_created' = sd_created]_all_vars

\* C18 witness: the first term was created, AddTerm of the second ended with
\* UNAVAILABLE: the run is aborted and no relationship was added
C18_Witness ==
    /\ sd_pc = "aborted"
    /\ sd_last = [op |-> "AddTerm", i |-> 2, code |-> UNAVAILABLE]
    /\ sd_created = [terms |-> 1, relationships |-> 0]
    /\ rels = {}

\* C19: in the relationship phase a seed relationship with an endpoint name that has
\* no identifier in term_map is skipped: no call is made, the stores stay as they
\* are, and the run goes on with the next relationship or completes.
C19_MissingEndpointSkipped ==
    [][(sd_pc = "rels" /\ EndpointMissing(sd_i)) =>
          /\ sd_last' = [op |-> "skip", i |-> sd_i, code |-> None]
          /\ terms' = terms
          /\ rels' = rels
          /\ sd_created' = sd_created
          /\ sd_faulted' = sd_faulted
          /\ IF sd_i < Len(sd_data.relationships)
             THEN sd_pc' = "rels" /\ sd_i' = sd_i + 1
             ELSE sd_pc' = "completed"]_all_vars

\* C19 witness: the relationship to the unseeded term "C" was skipped and the run
\* completed, having created the next relationship
C19_Witness ==
    /\ sd_pc = "completed"
    /\ sd_data.relationships[1][2] = "C"
    /\ "C" \notin DOMAIN sd_term_map
    /\ sd_created.relationships = 1
    /\ sd_last = [op |-> "AddRelationship", i |-> 2, code |-> OK]

\* C20: in the relationship phase ALREADY_EXISTS of AddRelationship counts as
\* success: that call leaves the stores as they are, and the run goes on with the
\* next seed relationship or, after the last one, completes.
C20_AlreadyExistsRelationshipIsSuccess ==
    [][(sd_last' # sd_last /\ sd_last'.op = "AddRelationship"
           /\ sd_last'.code = ALREADY_EXISTS) =>
          /\ sd_pc = "rels"
          /\ sd_last'.i = sd_i
          /\ rels' = rels
          /\ terms' = terms
          /\ sd_created' = sd_created
          /\ IF sd_i < Len(sd_data.relationships)
             THEN sd_pc' = "rels" /\ sd_i' = sd_i + 1
             ELSE sd_pc' = "completed"]_all_vars

\* C20 witness: in the first run the last seed relationship was already stored by
\* another client: the run has completed
C20_Witness ==
    /\ sd_run = 1
    /\ sd_pc = "completed"
    /\ sd_last = [op |-> "AddRelationship", i |-> Len(sd_data.relationships),
                  code |-> ALREADY_EXISTS]
    /\ Cardinality(rels) = 1

(***************************************************************************)
(* Part 9.  Error propagation, the relationship query and retrying in the  *)
(* gateway (checked under Spec)                                             *)
(***************************************************************************)

\* the downstream failure that made the request in flight fail, or None
OriginatingCode ==
    IF gw_down.proxy # None THEN gw_down.proxy
    ELSE IF IsEnriched /\ gw_down.central \notin {None, OK} THEN gw_down.central
    ELSE IF IsMindMap /\ gw_down.rels \notin {None, OK} THEN gw_down.rels
    ELSE None

\* C22: a gateway operation that fails because a downstream call failed (a proxied
\* call, the central fetch of GetTerm / GetTermByName, the search of SearchTerms,
\* the relationship fetch of GetMindMapForTerm) answers its caller with exactly
\* the status code the backend call raised, and with an empty message.
C22_ErrorCodePassthrough ==
    (gw_pc = "done" /\ OriginatingCode # None) =>
        /\ OriginatingCode \in ErrorCodes
        /\ gw_resp = EmptyResponse(OriginatingCode)

\* C22 witness: a proxied DeleteTerm of an identifier the term store does not hold
\* was answered NOT_FOUND, the code of the term store
C22_Witness ==
    /\ gw_pc = "done"
    /\ gw_req.op = "DeleteTerm"
    /\ gw_req.arg \in TermIds \ DOMAIN terms
    /\ gw_down.proxy = NOT_FOUND
    /\ gw_resp.code = NOT_FOUND
\* the rows of a sequence of relationships
RowsOf(rs) == {rs[i] : i \in DOMAIN rs}

\* the identifier a relationship fetch is made for: term.id in _get_term_details,
\* request.term_id in GetMindMapForTerm
FetchedTermId == IF gw_pc = "details" THEN gw_term.id ELSE gw_req'.arg

\* C28: GetRelationshipsForTerm with a non-empty term_id, when it answers, returns
\* exactly the stored relationships whose from_term_id or to_term_id is term_id:
\* every such row once, and no other row.
C28_RelationshipsOfTerm ==
    [][(gw_down'.rels = OK /\ gw_down.rels # OK) =>
          /\ FetchedTermId # ""
          /\ RowsOf(gw_rels') =
                {r \in rels : r.from_term_id = FetchedTermId \/ r.to_term_id = FetchedTermId}
          /\ Len(gw_rels') = Cardinality(RowsOf(gw_rels'))
          /\ rels' = rels]_all_vars

\* C28 witness: two relationships are stored; the fetch for a term that is the
\* to_term_id of one of them and no endpoint of the other returned that one row
C28_Witness ==
    /\ gw_pc = "lookup"
    /\ IsMindMap
    /\ gw_down.rels = OK
    /\ gw_writes = 0
    /\ Cardinality(rels) = 2
    /\ Len(gw_rels) = 1
    /\ gw_rels[1].to_term_id = gw_req.arg
    /\ gw_pending = AllTermIds(gw_req.arg, gw_rels)

\* the number of attempts made of the downstream call that failed the request
FailedCallAttempts ==
    IF gw_req.op = "GetTerm" THEN gw_calls.get_term[gw_req.arg]
    ELSE IF gw_req.op = "GetTermByName" THEN gw_calls.get_term_by_name
    ELSE gw_calls.get_relationships

\* C30: every downstream call of an orchestrating handler goes through the
\* call-level retrier: a call that raised UNAVAILABLE is attempted again, so a
\* request that ends with UNAVAILABLE has made more than one attempt of the call
\* that failed it.
C30_DownstreamCallsRetried ==
    (gw_pc = "done" /\ (IsEnriched \/ IsMindMap) /\ OriginatingCode = UNAVAILABLE) =>
        FailedCallAttempts > 1

(***************************************************************************)
(* Part 10.  The seeder and an AddTerm whose answer is lost (checked under *)
(* SpecSeeder)                                                              *)
(***************************************************************************)

\* identifiers of the stored terms with the given name
IdsOfName(name) == {id \in DOMAIN terms : terms[id].name = name}

\* the term loop of this run is past the seed term at position i
TermResolved(i) ==
    \/ sd_pc \in {"rels", "completed"}
    \/ sd_pc \in {"terms", "lookup"} /\ sd_i > i

\* C29: when an AddTerm attempt of the seeder is applied by the term store but
\* answered UNAVAILABLE, the attempt that follows is answered ALREADY_EXISTS, never
\* OK, and sends the seeder to the lookup by name; the term store holds exactly one
\* term with that name, and once the term loop is past that seed term (so at the
\* end of a completed run) term_map holds the identifier of that term.
C29_LostAddTermResolvedByName ==
    \A i \in sd_lost :
        /\ Cardinality(IdsOfName(SeedName(i))) = 1
        /\ (sd_last.op = "AddTerm" /\ sd_last.i = i) =>
              /\ sd_last.code # OK
              /\ sd_last.code = ALREADY_EXISTS => (sd_pc = "lookup" /\ sd_i = i)
        /\ TermResolved(i) =>
              {TermMapGet(sd_term_map, SeedName(i))} = IdsOfName(SeedName(i))

\* C29 witness: the first run has completed; the AddTerm of the second seed term
\* was applied and answered UNAVAILABLE, so no creation was counted for it, and
\* term_map holds the identifier of the one stored term of that name
C29_Witness ==
    /\ sd_run = 1
    /\ sd_pc = "completed"
    /\ sd_lost = {2}
    /\ sd_created.terms = 0
    /\ Cardinality(IdsOfName(SeedName(2))) = 1
    /\ sd_term_map[SeedName(2)] \in IdsOfName(SeedName(2))

(***************************************************************************)
(* Part 11.  The uniqueness constraints of the two stores (checked under   *)
(* SpecRelationships and SpecTerms)                                         *)
(***************************************************************************)

\* a handler has just answered a call of one of the given operations
JustAnswered(ops) == sv_last' # sv_last /\ sv_last'.op \in ops

\* C26: after any sequence and interleaving of AddRelationship and
\* DeleteRelationship calls the relationships table holds each triple
\* (from_term_id, to_term_id, type) at most once; an AddRelationship of a triple
\* the table holds leaves the table as it is and is answered ALREADY_EXISTS (or
\* INTERNAL when the database raised another error).
C26_RelationshipTriplesUnique ==
    /\ [](\A r \in BagToSet(tb_rels) : CopiesIn(r, tb_rels) = 1)
    /\ [][(JustAnswered({"AddRelationship"}) /\ BagIn(sv_last'.req, tb_rels)) =>
             /\ tb_rels' = tb_rels
             /\ sv_last'.code \in {ALREADY_EXISTS, INTERNAL}]_all_vars

\* C26 witness: the table holds two triples, one the reverse of the other, and
\* the last call, an AddRelationship of one of them, was answered ALREADY_EXISTS
C26_Witness ==
    /\ sv_last.op = "AddRelationship"
    /\ sv_last.code = ALREADY_EXISTS
    /\ BagIn(sv_last.req, tb_rels)
    /\ BagIn(RelRow(sv_last.req.to_term_id, sv_last.req.from_term_id, sv_last.req.type),
             tb_rels)
    /\ BagCardinality(tb_rels) = 2

\* the call would give the name of another stored term to a term: an AddTerm of a
\* stored name, an UpdateTerm of a stored term to the name of another stored term
DuplicatesName(op, req) ==
    IF op = "AddTerm"
    THEN \E r \in BagToSet(tb_terms) : r.name = req.name
    ELSE /\ \E r \in BagToSet(tb_terms) : r.id = req.id
         /\ \E r \in BagToSet(tb_terms) : r.id # req.id /\ r.name = req.name

\* C27: after any interleaving of AddTerm, UpdateTerm and DeleteTerm calls, with
\* concurrent calls for the same name, no two rows of the terms table have the
\* same name or the same id; an AddTerm or UpdateTerm that would duplicate a
\* name leaves the table as it is and is answered ALREADY_EXISTS (or INTERNAL when
\* the database raised another error).
C27_TermNamesAndIdsUnique ==
    /\ [](\A r1 \in BagToSet(tb_terms) :
            /\ CopiesIn(r1, tb_terms) = 1
            /\ \A r2 \in BagToSet(tb_terms) :
                 (r1.id = r2.id \/ r1.name = r2.name) => r1 = r2)
    /\ [][(JustAnswered({"AddTerm", "UpdateTerm"})
              /\ DuplicatesName(sv_last'.op, sv_last'.req)) =>
             /\ tb_terms' = tb_terms
             /\ sv_last'.code \in {ALREADY_EXISTS, INTERNAL}]_all_vars

\* C27 witness: two terms are stored; an UpdateTerm that would give one of them
\* the name of the other was answered ALREADY_EXISTS while another UpdateTerm is
\* between its SELECT and its UPDATE
C27_Witness ==
    /\ sv_last.op = "UpdateTerm"
    /\ sv_last.code = ALREADY_EXISTS
    /\ BagCardinality(tb_terms) = 2
    /\ \E r \in BagToSet(tb_terms) : r.id # sv_last.req.id /\ r.name = sv_last.req.name
    /\ \E r \in BagToSet(tb_terms) : r.id = sv_last.req.id /\ r.name # sv_last.req.name
    /\ \E w \in Workers : up_pc[w] = "selected"

(***************************************************************************)
(* Part 12.  Start of the gateway process (checked under SpecStartup)      *)
(***************************************************************************)

\* the channels the running invocation of wait_for_channel_ready holds open
OwnOpen == {c \in ch_open : c.service = ch_service}

\* the channel the last invocation returned, as __init__ stored it
Returned ==
    IF ch_service = "Glossary Service" THEN gs_channels.glossary ELSE gs_channels.graph

\* C21: the seeding run is retried until the gateway is ready: when the gateway
\* was not ready at the seeder's first wait and is ready later, the seeder does
\* not end without having got to the seeding.
C21_SeederRetriesUntilReady ==
    (sdt_pc = "ended" /\ gw_reachable) => sdt_seeded

\* C23: wait_for_channel_ready makes at most max_retries readiness attempts; it
\* returns at the first attempt that becomes ready, with the channel of that
\* attempt, open; it raises exactly when max_retries attempts have timed out, and
\* then serve() is over.
C23_BoundedChannelAttempts ==
    /\ ch_attempt <= channel_max_retries
    /\ ch_timeouts <= ch_attempt
    /\ ch_pc = "returned" =>
          /\ ch_attempt >= 1
          /\ ch_timeouts = ch_attempt - 1
          /\ Returned = CurrentChannel
          /\ Returned \in ch_open
    /\ ch_pc = "raised" <=> mn_i = 0
    /\ ch_pc = "raised" => ch_timeouts = channel_max_retries
    /\ ch_timeouts = channel_max_retries => ch_pc \in {"loop", "raised"}
    /\ (ch_pc = "loop" /\ ch_timeouts = channel_max_retries) =>
          (ENABLED ChannelGiveUp /\ ~ENABLED ChannelAttempt)

\* C23 witness: the relationship store became ready at the last attempt allowed,
\* after max_retries - 1 timeouts
C23_Witness ==
    /\ ch_pc = "returned"
    /\ ch_service = "Graph Service"
    /\ ch_attempt = channel_max_retries
    /\ ch_timeouts = channel_max_retries - 1
    /\ gs_channels.graph = CurrentChannel

\* C24: the channel of an attempt that timed out is closed before the next
\* attempt opens one: the running invocation holds at most one channel open, the
\* one of the attempt it is waiting on or the one it returned, and none between
\* two attempts or after it raised; no channel of a failed attempt stays open.
C24_FailedChannelsClosed ==
    /\ Cardinality(OwnOpen) <= 1
    /\ ch_pc = "waiting" => OwnOpen = {CurrentChannel}
    /\ ch_pc = "loop" => OwnOpen = {}
    /\ ch_pc = "returned" => OwnOpen = {Returned}
    /\ ch_pc = "raised" => OwnOpen = {}
    /\ ch_pc \in {"idle", "returned", "raised"} =>
          ch_open \subseteq {gs_channels.glossary, gs_channels.graph}

\* C24 witness: the term store's channel is established, every attempt for the
\* relationship store timed out and the establisher raised: the only channel
\* open is the term store's
C24_Witness ==
    /\ ch_pc = "raised"
    /\ ch_service = "Graph Service"
    /\ ch_timeouts = channel_max_retries
    /\ gs_channels.glossary # NoChannel
    /\ ch_open = {gs_channels.glossary}

\* C25: the server handles no request before both backend channels are
\* established, the term store's first; the seeder thread is started only after
\* the server was started and calls run_seeder at most once in the process; the
\* started server handles requests whatever the seeder thread is doing.
C25_StartupOrder ==
    /\ srv_started => BothEstablished
    /\ ~srv_unready
    /\ gs_channels.graph # NoChannel => gs_channels.glossary # NoChannel
    /\ sdt_pc # "none" => srv_started
    /\ sdt_runs <= 1
    /\ (srv_started /\ srv_served < MaxServed) => ENABLED HandleRequest

\* C25 witness: a request was handled while run_seeder was seeding
C25_Witness ==
    /\ sdt_pc = "seeding"
    /\ sdt_runs = 1
    /\ srv_served >= 1
    /\ BothEstablished
    /\ ~srv_unready

(***************************************************************************)
(* Part 13.  The enriched records of GetTerm / GetTermByName (checked      *)
(* under Spec)                                                              *)
(***************************************************************************)

\* the identifiers that resolved to a term in this call: those whose GetTerm inside
\* _get_term_lookup answered, and the central term, fetched before
ResolvedIds == (LookedUp \ gw_failed) \cup {gw_term.id}

\* the term an identifier resolved to: the answer of its lookup, or for the central
\* term whose lookup failed the term the central fetch returned
ResolvedTerm(id) ==
    IF id \in LookedUp \ gw_failed THEN DictGet(gw_lookup, id) ELSE gw_term

\* positions of the returned relationships with both endpoints resolved
BothResolved ==
    {i \in DOMAIN gw_rels :
        gw_rels[i].from_term_id \in ResolvedIds /\ gw_rels[i].to_term_id \in ResolvedIds}

\* the position in the response of the record of the relationship at position i
RecordIndex(i) == Cardinality({k \in BothResolved : k <= i})

\* C31: GetTerm / GetTermByName emit one enriched record for a returned
\* relationship exactly when both of its endpoints resolved to terms (the central
\* term counts as resolved, also when its own lookup failed): the records are as
\* many as those relationships, in their order, each with the from and to
\* identifiers and the kind of its relationship and the names of the terms the two
\* endpoints resolved to; a relationship with an unresolved endpoint is in no
\* record of the response.
C31_EnrichedRecords ==
    (gw_pc = "done" /\ IsEnriched /\ gw_down.rels = OK) =>
        /\ Len(gw_resp.relationships) = Cardinality(BothResolved)
        /\ \A i \in BothResolved :
              gw_resp.relationships[RecordIndex(i)] =
                  [from_term_id |-> gw_rels[i].from_term_id,
                   to_term_id |-> gw_rels[i].to_term_id,
                   type |-> gw_rels[i].type,
                   from_term_name |-> ResolvedTerm(gw_rels[i].from_term_id).name,
                   to_term_name |-> ResolvedTerm(gw_rels[i].to_term_id).name]
        /\ \A i \in DOMAIN gw_rels \ BothResolved :
              \A j \in DOMAIN gw_resp.relationships :
                  \/ gw_resp.relationships[j].from_term_id # gw_rels[i].from_term_id
                  \/ gw_resp.relationships[j].to_term_id # gw_rels[i].to_term_id
                  \/ gw_resp.relationships[j].type # gw_rels[i].type

\* C31 witness: two relationships of the central term were returned; the lookup of
\* the central term failed, one neighbour resolved and the other did not: the
\* response holds the one record of the resolved neighbour, with two different names
C31_Witness ==
    /\ gw_pc = "done"
    /\ IsEnriched
    /\ gw_down.rels = OK
    /\ Len(gw_rels) = 2
    /\ gw_term.id \in gw_failed
    /\ Cardinality(BothResolved) = 1
    /\ Len(gw_resp.relationships) = 1
    /\ gw_resp.relationships[1].from_term_name # gw_resp.relationships[1].to_term_name
    /\ gw_resp.relationships[1].from_term_name \in Names
    /\ gw_resp.relationships[1].to_term_name \in Names

(***************************************************************************)
(* Part 14.  Cancellation of a request (checked under SpecCancel)          *)
(***************************************************************************)

\* C32 (as claimed): once the caller of a request timed out or disconnected, the
\* gateway issues no further downstream call for that request.  The handlers
\* never look at the state of their context, so the relationship fetch and every
\* remaining lookup are still made.
C32_NoCallsAfterCancel ==
    [][(gw_cancelled /\ gw_cancelled') => gw_calls' = gw_calls]_all_vars

(***************************************************************************)
(* Part 15.  What ends the gateway process (checked under SpecStartup)     *)
(***************************************************************************)

\* C33: the gateway process ends only when wait_for_channel_ready has used up its
\* attempts, which can happen only before the server is started; once it is
\* started nothing ends serve(): a seeding run that was aborted or timed out
\* waiting for the gateway returns from run_seeder without raising into
\* seed_in_background, the seeder thread ends, and a handler whose downstream call
\* failed gives its caller an error or a degraded response and the server goes on
\* handling requests.
C33_OnlyStartupIsFatal ==
    /\ mn_i = 0 <=> ch_pc = "raised"
    /\ mn_i = 0 => (ch_timeouts = channel_max_retries /\ ~srv_started)
    /\ srv_started => mn_i # 0
    /\ sdt_pc # "caught"
    /\ sdt_event # "none" <=> sdt_pc = "ended"
    /\ srv_last \in {"none", "ok", "error", "degraded"}
    /\ (srv_started /\ srv_served < MaxServed) => ENABLED HandleRequest

\* C33 witness: the seeding run was aborted, run_seeder returned and the thread
\* ended; the server, still in wait_for_termination, has since answered a request
\* whose downstream call failed with an error
C33_Witness ==
    /\ sdt_event = "aborted"
    /\ sdt_pc = "ended"
    /\ srv_last = "error"
    /\ srv_served = MaxServed
    /\ MainAt("wait")

(***************************************************************************)
(* Part 16.  The relationship phase of run_seeder on SEED_DATA (checked    *)
(* under SpecSeeder)                                                        *)
(***************************************************************************)

\* the running (or last) run of the seeder got to its relationship loop
InRelationshipPhase ==
    \/ sd_pc = "rels"
    \/ sd_pc \in {"completed", "aborted"} /\ sd_last.op \in {"AddRelationship", "skip"}

\* the seed term names
SeedTermNames == {sd_data.terms[i].name : i \in DOMAIN sd_data.terms}

\* C34: with the seed data of the source, whose relationships name seeded terms
\* only, in every run that gets to the relationship loop term_map holds a
\* non-empty identifier for every seed term name; so no seed relationship has an
\* unresolved endpoint, the `continue` branch is never taken, and the loop moves
\* from one relationship to the next only by an AddRelationship call for it: the
\* relationships are attempted in list order, up to the first that fails with
\* something other than ALREADY_EXISTS, and a completed run has attempted the last.
C34_NoSeedRelationshipSkipped ==
    /\ []((sd_data = SEED_DATA /\ InRelationshipPhase) =>
            /\ \A n \in SeedTermNames : TermMapGet(sd_term_map, n) \in TermIds
            /\ \A i \in DOMAIN sd_data.relationships :
                  ~SkipsRelationship(TermMapGet(sd_term_map, sd_data.relationships[i][1]),
                                     TermMapGet(sd_term_map, sd_data.relationships[i][2]))
            /\ ~ENABLED SeedSkipRelationship
            /\ sd_last.op # "skip"
            /\ sd_pc = "completed" =>
                  (sd_last.op = "AddRelationship" /\ sd_last.i = Len(sd_data.relationships))
            /\ sd_pc = "aborted" =>
                  (sd_last.i = sd_i /\ sd_last.code \notin {OK, ALREADY_EXISTS}))
    /\ [][(sd_data = SEED_DATA /\ sd_pc = "rels" /\ sd_pc' # "aborted" /\ sd_last' # sd_last) =>
             /\ sd_last' = [op |-> "AddRelationship", i |-> sd_i, code |-> sd_last'.code]
             /\ sd_last'.code \in {OK, ALREADY_EXISTS}
             /\ (sd_pc' = "rels" /\ sd_i' = sd_i + 1)
                   \/ (sd_pc' = "completed" /\ sd_i = Len(sd_data.relationships))]_all_vars

\* C34 witness: a run on SEED_DATA in which one term was created and the other
\* found by name has completed after an AddRelationship for each of the two seed
\* relationships, both created
C34_Witness ==
    /\ sd_data = SEED_DATA
    /\ sd_pc = "completed"
    /\ sd_created.terms = 1
    /\ sd_created.relationships = 2
    /\ sd_last = [op |-> "AddRelationship", i |-> 2, code |-> OK]
    /\ \A n \in SeedTermNames : TermMapGet(sd_term_map, n) \in TermIds

(***************************************************************************)
(* Part 17.  A failed AddRelationship of the seeder (checked under         *)
(* SpecSeeder)                                                              *)
(***************************************************************************)

\* the row the seeder sends for the seed relationship at position j
SeedRow(j) ==
    [from_term_id |-> RequestField(TermMapGet(sd_term_map, sd_data.relationships[j][1])),
     to_term_id |-> RequestField(TermMapGet(sd_term_map, sd_data.relationships[j][2])),
     type |-> get_relationship_type_enum(sd_data.relationships[j][3])]

\* the seed relationship at position j has both endpoints in term_map
SeedRowSent(j) ==
    ~SkipsRelationship(TermMapGet(sd_term_map, sd_data.relationships[j][1]),
                       TermMapGet(sd_term_map, sd_data.relationships[j][2]))

\* the run was ended by its relationship loop
AbortedInRelationships == sd_pc = "aborted" /\ sd_last.op = "AddRelationship"

\* C35: when _call_with_retry(stub.AddRelationship) of the relationship loop ends
\* with a code other than ALREADY_EXISTS (with UNAVAILABLE only after max_retries
\* attempts), the run is aborted at that relationship: no later seed relationship
\* is attempted or skipped, and the stores keep what the run wrote before: the
\* failing step changes neither store, every name of term_map is still stored
\* under its identifier and every earlier seed relationship that was sent is
\* still stored.
C35_RelationshipFailureAbortsRun ==
    /\ [][(sd_last' # sd_last /\ sd_last'.op = "AddRelationship"
              /\ sd_last'.code \notin {OK, ALREADY_EXISTS}) =>
             /\ sd_pc' = "aborted"
             /\ sd_i' = sd_i
             /\ sd_last'.code = UNAVAILABLE => sd_attempt = max_retries_default - 1
             /\ UNCHANGED <<terms, rels, sd_term_map, sd_created>>]_all_vars
    /\ [](AbortedInRelationships =>
            /\ sd_last.code \in ErrorCodes \ {ALREADY_EXISTS}
            /\ sd_last.i = sd_i
            /\ ~ENABLED SeedAddRelationship
            /\ ~ENABLED SeedSkipRelationship
            /\ \A n \in DOMAIN sd_term_map :
                  /\ sd_term_map[n] \in DOMAIN terms
                  /\ terms[sd_term_map[n]].name = n
            /\ \A j \in 1..(sd_i - 1) : SeedRowSent(j) => SeedRow(j) \in rels)

\* C35 witness: the first seed relationship was created, the second was answered
\* UNAVAILABLE at every attempt: the run is aborted there, the created term and
\* the created relationship are stored
C35_Witness ==
    /\ sd_data = SEED_DATA
    /\ AbortedInRelationships
    /\ sd_last = [op |-> "AddRelationship", i |-> 2, code |-> UNAVAILABLE]
    /\ sd_created = [terms |-> 1, relationships |-> 1]
    /\ SeedRow(1) \in rels
    /\ SeedRow(2) \notin rels

(***************************************************************************)
(* Part 18.  DeleteTerm and the relationships of the deleted term (checked *)
(* under Spec)                                                              *)
(***************************************************************************)

\* the stored relationships with the identifier as an endpoint
RelationshipsNaming(id) == {r \in rels : r.from_term_id = id \/ r.to_term_id = id}

\* identifiers a step removed from the term store
DeletedIds == DOMAIN terms \ DOMAIN terms'

\* C36: a DeleteTerm changes the term store only: it removes the one row and
\* leaves the relationship store as it is, so GetRelationshipsForTerm of the
\* deleted identifier answers the same relationships after as before; and a
\* GetMindMapForTerm served with no write in between reports every stored
\* relationship of its term as an edge, also those whose other endpoint is no
\* longer in the term store, and gives no node for such an endpoint.
C36_DeleteTermLeavesRelationships ==
    /\ [][DeletedIds # {} =>
             /\ rels' = rels
             /\ Cardinality(DeletedIds) = 1
             /\ \A id \in DOMAIN terms' : id \in DOMAIN terms /\ terms'[id] = terms[id]
             /\ \A id \in DeletedIds :
                   /\ GraphGetRelationshipsForTerm(id, None)' =
                         GraphGetRelationshipsForTerm(id, None)
                   /\ GraphGetRelationshipsForTerm(id, None)'.relationships =
                         RelationshipsNaming(id)]_all_vars
    /\ []((MindMapDone /\ gw_resp.code = OK /\ gw_writes = 0) =>
            /\ \A r \in RelationshipsNaming(gw_req.arg) :
                  \E i \in DOMAIN gw_resp.edges :
                      /\ gw_resp.edges[i].from_id = r.from_term_id
                      /\ gw_resp.edges[i].to_id = r.to_term_id
            /\ \A id \in EdgeEndpoints \ DOMAIN terms : id \notin NodeIds)

\* C36 witness: the term the store began with was deleted while a relationship
\* names it; the mind map of its neighbour has the neighbour as a node and the
\* edge to the deleted identifier, which is no node
C36_Witness ==
    /\ MindMapDone
    /\ gw_resp.code = OK
    /\ gw_writes = 0
    /\ InitialIds[1] \notin DOMAIN terms
    /\ gw_req.arg \in DOMAIN terms
    /\ gw_req.arg \in NodeIds
    /\ InitialIds[1] \in EdgeEndpoints \ NodeIds
    /\ RelationshipsNaming(InitialIds[1]) # {}

(***************************************************************************)
(* Part 19.  UpdateTerm racing with DeleteTerm (checked under SpecTerms)   *)
(***************************************************************************)

\* C37 (as claimed): whenever UpdateTerm answers with success, a row with the
\* identifier of the request was in the terms table when the UPDATE ran and holds
\* the requested name and definition after it.  UpdateTerm does not look at the
\* rowcount of its UPDATE: when a DeleteTerm of the identifier commits between the
\* SELECT and the UPDATE, the UPDATE matches no row and the handler still returns
\* the request as the updated term.
C37_UpdateSuccessMeansUpdated ==
    [][(JustAnswered({"UpdateTerm"}) /\ sv_last'.code = OK) =>
          /\ \E r \in BagToSet(tb_terms) : r.id = sv_last'.req.id
          /\ BagIn(sv_last'.req, tb_terms')]_all_vars

(***************************************************************************)
(* Part 20.  No relationship of a term with itself (checked under Spec)    *)
(***************************************************************************)

\* the proxied AddRelationship in flight names the same term twice, or no term
SelfOrEmptyRequest ==
    /\ gw_req.op = "AddRelationship"
    /\ RelationshipRequestInvalid(gw_req.arg.from_term_id, gw_req.arg.to_term_id)

\* C38: the relationship store never holds a row whose from_term_id equals its
\* to_term_id: an AddRelationship with equal endpoints, or with an empty one, that
\* reaches the relationship store is answered INVALID_ARGUMENT, whatever the state
\* of its database, the gateway passes that code on, and the store is left as it
\* was; so no relationship received from the store and no record or edge of a
\* GetTerm / GetTermByName / GetMindMapForTerm response joins a term to itself.
C38_NoSelfRelationship ==
    /\ [](/\ \A r \in rels : r.from_term_id # r.to_term_id
          /\ \A i \in DOMAIN gw_rels : gw_rels[i].from_term_id # gw_rels[i].to_term_id
          /\ \A i \in DOMAIN gw_resp.relationships :
                gw_resp.relationships[i].from_term_id # gw_resp.relationships[i].to_term_id
          /\ \A i \in DOMAIN gw_resp.edges : gw_resp.edges[i].from_id # gw_resp.edges[i].to_id
          /\ \A f \in ReqIds, t \in ReqIds, ty \in RelTypes, fault \in StoreFaults :
                RelationshipRequestInvalid(f, t) =>
                    GraphAddRelationshipCode(f, t, ty, fault) = INVALID_ARGUMENT
          /\ (gw_pc = "done" /\ SelfOrEmptyRequest) =>
                gw_resp.code \in {INVALID_ARGUMENT, UNAVAILABLE})
    /\ [][(gw_pc = "idle" /\ gw_pc' = "done" /\ SelfOrEmptyRequest') =>
             rels' = rels]_all_vars

\* C38 witness: while the store holds a relationship from one term to another, a
\* proxied AddRelationship from the first term to itself was answered
\* INVALID_ARGUMENT
C38_Witness ==
    /\ gw_pc = "done"
    /\ gw_req.op = "AddRelationship"
    /\ gw_req.arg.from_term_id \in TermIds
    /\ gw_req.arg.to_term_id = gw_req.arg.from_term_id
    /\ gw_resp.code = INVALID_ARGUMENT
    /\ \E r \in rels : r.from_term_id = gw_req.arg.from_term_id

=============================================================================
